---------------------------- MODULE Spec2Model ----------------------------
(***************************************************************************)
(* A model of lawctl: the policy engine (src/src/policy/engine.rs), the    *)
(* path and command matchers (src/src/utils/paths.rs) and the gateway      *)
(* server (src/src/gateway/server.rs).                                     *)
(*                                                                         *)
(* Strings are sequences of one-character strings, so that prefix, suffix, *)
(* replace and wildcard matching are computed as the code computes them.   *)
(* Longer literals that the code only ever concatenates (the fixed words   *)
(* of a rule description or of a reason) are kept as single atoms.         *)
(***************************************************************************)
EXTENDS Integers, Sequences, FiniteSets, TLC

(***************************************************************************)
(* Bounds of the model.                                                    *)
(***************************************************************************)
\* The longest rule list of a policy given to the engine.
MaxRules == 2

\* The connections the gateway accepts in a session.
NumConns == 2

\* The lines the clients send in a session, over all connections.
MaxLines == 2

(***************************************************************************)
(* Option<T>: None is the empty sequence, Some(x) the one-element sequence.*)
(***************************************************************************)
None == <<>>

Some(x) == <<x>>

IsSome(o) == o # <<>>

Unwrap(o) == o[1]

UnwrapOr(o, d) == IF o = <<>> THEN d ELSE o[1]

(***************************************************************************)
(* str helpers: starts_with, ends_with, find, trim, split, join, lines.    *)
(***************************************************************************)
StartsWith(s, p) == Len(p) <= Len(s) /\ SubSeq(s, 1, Len(p)) = p

EndsWith(s, p) == Len(p) <= Len(s) /\ SubSeq(s, Len(s) - Len(p) + 1, Len(s)) = p

\* str::find: the 0-based offset of the first occurrence of needle, or -1.
Find(hay, needle) ==
    LET hits == {i \in 0..(Len(hay) - Len(needle)) :
                    SubSeq(hay, i + 1, i + Len(needle)) = needle}
    IN IF hits = {} THEN -1 ELSE CHOOSE i \in hits : \A j \in hits : i <= j

WhiteSpace == {" ", "\n", "\t"}

RECURSIVE TrimStart(_)
TrimStart(s) ==
    IF s # <<>> /\ Head(s) \in WhiteSpace THEN TrimStart(Tail(s)) ELSE s

RECURSIVE TrimEnd(_)
TrimEnd(s) ==
    IF s # <<>> /\ s[Len(s)] \in WhiteSpace
    THEN TrimEnd(SubSeq(s, 1, Len(s) - 1)) ELSE s

Trim(s) == TrimEnd(TrimStart(s))

\* str::trim_end_matches('/')
RECURSIVE TrimEndSlash(_)
TrimEndSlash(s) ==
    IF s # <<>> /\ s[Len(s)] = "/"
    THEN TrimEndSlash(SubSeq(s, 1, Len(s) - 1)) ELSE s

\* str::split(sep): the pieces between the occurrences of the character sep.
RECURSIVE SplitAcc(_, _, _)
SplitAcc(s, sep, cur) ==
    IF s = <<>> THEN <<cur>>
    ELSE IF Head(s) = sep THEN <<cur>> \o SplitAcc(Tail(s), sep, <<>>)
    ELSE SplitAcc(Tail(s), sep, Append(cur, Head(s)))

Split(s, sep) == SplitAcc(s, sep, <<>>)

\* [String]::join(sep)
RECURSIVE Join(_, _)
Join(strs, sep) ==
    IF strs = <<>> THEN <<>>
    ELSE IF Len(strs) = 1 THEN strs[1]
    ELSE strs[1] \o sep \o Join(Tail(strs), sep)

\* str::lines().count(): a final line end does not start another line.
LinesCount(d) ==
    LET newlines == Cardinality({i \in 1..Len(d) : d[i] = "\n"})
    IN IF d # <<>> /\ d[Len(d)] # "\n" THEN newlines + 1 ELSE newlines

(***************************************************************************)
(* utils/paths.rs                                                          *)
(***************************************************************************)
\* str::replace("//", "/"): left to right, matches do not overlap.
RECURSIVE ReplaceDoubleSlash(_)
ReplaceDoubleSlash(s) ==
    IF Len(s) < 2 THEN s
    ELSE IF s[1] = "/" /\ s[2] = "/"
         THEN <<"/">> \o ReplaceDoubleSlash(SubSeq(s, 3, Len(s)))
         ELSE <<s[1]>> \o ReplaceDoubleSlash(Tail(s))

NormalizePath(path) ==
    LET stripped == IF StartsWith(path, <<".", "/">>)
                    THEN SubSeq(path, 3, Len(path)) ELSE path
    IN ReplaceDoubleSlash(stripped)

\* One compiled glob against a path.  The patterns of this model use
\* literals, `?`, `*` and a final `/**`, which globset compiles to the
\* anchored expressions `.`, `.*` and `/.*` (the separator is not literal).
RECURSIVE GlobMatch(_, _)
GlobMatch(pat, text) ==
    IF pat = <<>> THEN text = <<>>
    ELSE IF Head(pat) = "*"
         THEN GlobMatch(Tail(pat), text)
              \/ (text # <<>> /\ GlobMatch(pat, Tail(text)))
    ELSE IF Head(pat) = "?"
         THEN text # <<>> /\ GlobMatch(Tail(pat), Tail(text))
    ELSE text # <<>> /\ Head(text) = Head(pat)
         /\ GlobMatch(Tail(pat), Tail(text))

\* CompiledMatcher::matches: any of the compiled patterns matches.
MatcherMatches(patterns, path) ==
    \E k \in 1..Len(patterns) : GlobMatch(patterns[k], path)

\* The loop over the middle parts of glob_match_string.
RECURSIVE MiddleParts(_, _, _, _)
MiddleParts(text, parts, k, pos) ==
    IF k > Len(parts) - 1 THEN TRUE
    ELSE IF parts[k] = <<>> THEN MiddleParts(text, parts, k + 1, pos)
    ELSE LET idx == Find(SubSeq(text, pos + 1, Len(text)), parts[k])
         IN IF idx = -1 THEN FALSE
            ELSE MiddleParts(text, parts, k + 1, pos + idx + Len(parts[k]))

GlobMatchString(text, pattern) ==
    LET parts == Split(pattern, "*")
        n     == Len(parts)
    IN IF n = 1 THEN text = pattern
       ELSE IF parts[1] # <<>> /\ ~StartsWith(text, parts[1]) THEN FALSE
       ELSE IF parts[n] # <<>> /\ ~EndsWith(text, parts[n]) THEN FALSE
       ELSE MiddleParts(text, parts, 2,
                        IF parts[1] # <<>> THEN Len(parts[1]) ELSE 0)

CommandMatches(command, patterns) ==
    \E k \in 1..Len(patterns) :
        GlobMatchString(Trim(command), Trim(patterns[k]))

(***************************************************************************)
(* policy/types.rs                                                         *)
(***************************************************************************)
Actions == {"write", "delete", "run_cmd", "git_push", "network"}

\* A variant of is_destructive that leaves GitPush out of the match.
IsDestructiveWithoutPush(action) == action \in {"delete", "run_cmd"}

IsDestructive(action) == action \in {"delete", "git_push", "run_cmd"}

\* Conditions::default()
NoConditions ==
    [if_path_matches |-> <<>>, unless_path |-> <<>>, if_matches |-> <<>>,
     max_diff_lines |-> None, unless_domain |-> <<>>]

ConditionsIsEmpty(c) ==
    /\ c.if_path_matches = <<>>
    /\ c.unless_path = <<>>
    /\ c.if_matches = <<>>
    /\ c.max_diff_lines = None
    /\ c.unless_domain = <<>>

\* The three variants of Rule.
Deny(action, conditions, reason) ==
    [type |-> "Deny", action |-> action, conditions |-> conditions,
     reason |-> reason]

Allow(action, conditions) ==
    [type |-> "Allow", action |-> action, conditions |-> conditions]

RequireApproval(action, conditions, prompt) ==
    [type |-> "RequireApproval", action |-> action,
     conditions |-> conditions, prompt |-> prompt]

\* Rule::describe
Describe(rule) ==
    LET c == rule.conditions
        ifPath == IF c.if_path_matches # <<>>
                  THEN <<":if_path_matches:">> \o Join(c.if_path_matches, <<",">>)
                  ELSE <<>>
    IN CASE rule.type = "Deny" ->
              <<"deny:", rule.action>> \o ifPath
              \o (IF c.unless_path # <<>>
                  THEN <<":unless_path:">> \o Join(c.unless_path, <<",">>)
                  ELSE <<>>)
              \o (IF c.if_matches # <<>>
                  THEN <<":if_matches:">> \o Join(c.if_matches, <<",">>)
                  ELSE <<>>)
         [] rule.type = "Allow" ->
              <<"allow:", rule.action>> \o ifPath
              \o (IF c.max_diff_lines # None
                  THEN <<":max_diff_lines:", ToString(Unwrap(c.max_diff_lines))>>
                  ELSE <<>>)
         [] OTHER -> <<"require_approval:", rule.action>>

\* The variants of Decision.
Allowed(matched_rule) == [decision |-> "Allowed", matched_rule |-> matched_rule]

Denied(reason, matched_rule) ==
    [decision |-> "Denied", reason |-> reason, matched_rule |-> matched_rule]

RequiresApproval(reason, matched_rule) ==
    [decision |-> "RequiresApproval", reason |-> reason,
     matched_rule |-> matched_rule]

\* ActionContext::new and its builders.
NewContext(target) ==
    [target |-> target, diff |-> None, command |-> None, domain |-> None,
     diff_lines |-> None]

WithDiff(ctx, d) == [ctx EXCEPT !.diff_lines = Some(LinesCount(d)), !.diff = Some(d)]

WithCommand(ctx, cmd) == [ctx EXCEPT !.command = Some(cmd)]

WithDomain(ctx, dom) == [ctx EXCEPT !.domain = Some(dom)]


(***************************************************************************)
(* policy/engine.rs                                                        *)
(***************************************************************************)
IsGlob(p) == \E i \in 1..Len(p) : p[i] \in {"*", "?", "["}

\* The expansion of unless_path in PolicyEngine::new: a simple path P gives
\* the two patterns P and P/**, a glob is taken as it is.
RECURSIVE ExpandUnless(_)
ExpandUnless(paths) ==
    IF paths = <<>> THEN <<>>
    ELSE (IF IsGlob(Head(paths))
          THEN <<Head(paths)>>
          ELSE <<TrimEndSlash(Head(paths)),
                 TrimEndSlash(Head(paths)) \o <<"/", "*", "*">> >>)
         \o ExpandUnless(Tail(paths))

\* One CompiledRule of PolicyEngine::new.
CompileRule(rule) ==
    [rule |-> rule,
     path_matcher |->
        IF rule.conditions.if_path_matches # <<>>
        THEN Some(rule.conditions.if_path_matches) ELSE None,
     unless_path_matcher |->
        IF rule.conditions.unless_path # <<>>
        THEN Some(ExpandUnless(rule.conditions.unless_path)) ELSE None]

\* PolicyEngine::new
NewEngine(policy) ==
    [policy |-> policy,
     compiled_rules |-> [i \in 1..Len(policy.rules) |-> CompileRule(policy.rules[i])]]

\* The literal unless_path entries checked as string prefixes
\* (engine.rs:175-181), reached only when no unless matcher was compiled.
UnlessPrefixMatches(compiled, target) ==
    /\ compiled.rule.conditions.unless_path # <<>>
    /\ compiled.unless_path_matcher = None
    /\ \E k \in 1..Len(compiled.rule.conditions.unless_path) :
          StartsWith(target, compiled.rule.conditions.unless_path[k])

UnlessDomainMatches(conditions, context) ==
    /\ conditions.unless_domain # <<>>
    /\ IsSome(context.domain)
    /\ \E k \in 1..Len(conditions.unless_domain) :
          EndsWith(Unwrap(context.domain), conditions.unless_domain[k])

\* A check_conditions that tests if_path_matches before the exceptions.
CheckConditionsPathFirst(compiled, action, target, context) ==
    LET conditions == compiled.rule.conditions
    IN IF ConditionsIsEmpty(conditions) THEN "Matched"
       ELSE IF IsSome(compiled.path_matcher)
               /\ ~MatcherMatches(Unwrap(compiled.path_matcher), target)
            THEN "NotMatched"
       ELSE IF IsSome(compiled.unless_path_matcher)
               /\ MatcherMatches(Unwrap(compiled.unless_path_matcher), target)
            THEN "ExceptionMatched"
       ELSE IF UnlessPrefixMatches(compiled, target) THEN "ExceptionMatched"
       ELSE IF UnlessDomainMatches(conditions, context) THEN "ExceptionMatched"
       ELSE IF conditions.if_matches # <<>> /\ action = "run_cmd"
               /\ (IF IsSome(context.command)
                   THEN ~CommandMatches(Unwrap(context.command), conditions.if_matches)
                   ELSE TRUE)
            THEN "NotMatched"
       ELSE IF IsSome(conditions.max_diff_lines) /\ IsSome(context.diff_lines)
               /\ Unwrap(context.diff_lines) > Unwrap(conditions.max_diff_lines)
            THEN "NotMatched"
       ELSE "Matched"

\* PolicyEngine::check_conditions
CheckConditions(compiled, action, target, context) ==
    LET conditions == compiled.rule.conditions
    IN IF ConditionsIsEmpty(conditions) THEN "Matched"
       ELSE IF IsSome(compiled.unless_path_matcher)
               /\ MatcherMatches(Unwrap(compiled.unless_path_matcher), target)
            THEN "ExceptionMatched"
       ELSE IF UnlessPrefixMatches(compiled, target) THEN "ExceptionMatched"
       ELSE IF UnlessDomainMatches(conditions, context) THEN "ExceptionMatched"
       ELSE IF IsSome(compiled.path_matcher)
               /\ ~MatcherMatches(Unwrap(compiled.path_matcher), target)
            THEN "NotMatched"
       ELSE IF conditions.if_matches # <<>> /\ action = "run_cmd"
               /\ (IF IsSome(context.command)
                   THEN ~CommandMatches(Unwrap(context.command), conditions.if_matches)
                   ELSE TRUE)
            THEN "NotMatched"
       ELSE IF IsSome(conditions.max_diff_lines) /\ IsSome(context.diff_lines)
               /\ Unwrap(context.diff_lines) > Unwrap(conditions.max_diff_lines)
            THEN "NotMatched"
       ELSE "Matched"

\* PolicyEngine::rule_to_decision
RuleToDecision(law, rule) ==
    CASE rule.type = "Deny" ->
           LET c == rule.conditions
               default_reason ==
                 IF c.if_path_matches # <<>>
                 THEN <<"Policy '", law, "' denies ", rule.action,
                        " for paths matching: ">>
                      \o Join(c.if_path_matches, <<",", " ">>)
                 ELSE IF c.if_matches # <<>>
                 THEN <<"Policy '", law, "' denies ", rule.action,
                        " matching dangerous patterns">>
                 ELSE <<"Policy '", law, "' denies ", rule.action,
                        " (no exceptions matched)">>
           IN Denied(UnwrapOr(rule.reason, default_reason), Some(Describe(rule)))
      [] rule.type = "Allow" -> Allowed(Some(Describe(rule)))
      [] OTHER ->
           RequiresApproval(
             UnwrapOr(rule.prompt,
                      <<"Policy '", law, "' requires approval for ", rule.action>>),
             Some(Describe(rule)))

\* PolicyEngine::default_decision
DefaultDecision(action) ==
    IF IsDestructive(action)
    THEN Denied(<<"No explicit rule for ", action,
                  " - destructive actions are denied by default">>, None)
    ELSE Allowed(None)

\* A variant of the loop body that skips a Deny rule whose exception
\* matched, as it skips the other rules, instead of allowing.
LoopBodySkippingException(law, compiled, action, target, context) ==
    IF compiled.rule.action # action THEN None
    ELSE IF CheckConditions(compiled, action, target, context) = "Matched"
         THEN Some(RuleToDecision(law, compiled.rule))
         ELSE None

\* A variant of the loop body in which the exception of any rule, not only
\* of a Deny rule, allows the action.
LoopBodyExceptionAllows(law, compiled, action, target, context) ==
    IF compiled.rule.action # action THEN None
    ELSE LET result == CheckConditions(compiled, action, target, context)
         IN CASE result = "Matched" -> Some(RuleToDecision(law, compiled.rule))
              [] result = "ExceptionMatched" ->
                   Some(Allowed(Some(Describe(compiled.rule) \o <<" (exception)">>)))
              [] OTHER -> None

\* The body of the loop of PolicyEngine::evaluate for one compiled rule:
\* Some(decision) when the rule returns, None when the loop goes on.
LoopBody(law, compiled, action, target, context) ==
    IF compiled.rule.action # action THEN None
    ELSE LET result == CheckConditions(compiled, action, target, context)
         IN CASE result = "Matched" -> Some(RuleToDecision(law, compiled.rule))
              [] result = "ExceptionMatched" ->
                   IF compiled.rule.type = "Deny"
                   THEN Some(Allowed(Some(Describe(compiled.rule) \o <<" (exception)">>)))
                   ELSE None
              [] OTHER -> None

\* PolicyEngine::evaluate, the loop from rule index i to its return.
RECURSIVE EvaluateFrom(_, _, _, _, _)
EvaluateFrom(eng, i, action, target, context) ==
    IF i > Len(eng.compiled_rules) THEN DefaultDecision(action)
    ELSE LET r == LoopBody(eng.policy.law, eng.compiled_rules[i], action, target, context)
         IN IF IsSome(r) THEN Unwrap(r)
            ELSE EvaluateFrom(eng, i + 1, action, target, context)

Evaluate(eng, action, context) ==
    EvaluateFrom(eng, 1, action, NormalizePath(context.target), context)


(***************************************************************************)
(* The inputs of the engine: rules as the parser accepts them (the         *)
(* conditions fit the action, the globs are well formed), lists of one to  *)
(* MaxRules of them, and queries as the gateway and the tests build them.  *)
(***************************************************************************)
Law == "test"

PathTmp == <<"/", "t">>

GlobEnv == <<"*", ".", "e">>

GlobSrc == <<"s", "/", "*", "*">>

PathSecret == <<"s", "/", "k">>

CmdGlobRm == <<"r", " ", "*">>

DomainGit == <<"g", ".", "c">>

RuleCatalogue ==
    { Deny("delete", [NoConditions EXCEPT !.unless_path = <<PathTmp>>], None),
      Allow("delete", [NoConditions EXCEPT !.unless_path = <<PathTmp>>]),
      Deny("write", [NoConditions EXCEPT !.if_path_matches = <<GlobEnv>>], None),
      Deny("write", [NoConditions EXCEPT !.if_path_matches = <<PathSecret>>],
           Some(<<"secret">>)),
      Deny("write", [NoConditions EXCEPT !.if_path_matches = <<GlobSrc>>,
                                         !.unless_path = <<PathSecret>>], None),
      Allow("write", [NoConditions EXCEPT !.if_path_matches = <<GlobSrc>>,
                                          !.max_diff_lines = Some(1)]),
      Allow("write", NoConditions),
      RequireApproval("write", [NoConditions EXCEPT !.if_path_matches = <<GlobSrc>>],
                      Some(<<"review">>)),
      RequireApproval("git_push", NoConditions, None),
      Deny("run_cmd", [NoConditions EXCEPT !.if_matches = <<CmdGlobRm>>], None),
      Allow("run_cmd", NoConditions),
      Deny("network", [NoConditions EXCEPT !.unless_domain = <<DomainGit>>], None) }

RuleLists == UNION {[1..n -> RuleCatalogue] : n \in 1..MaxRules}

Policies == {[law |-> Law, rules |-> rs] : rs \in RuleLists}

Queries ==
    { [action |-> "write", context |-> NewContext(<<"a", ".", "e">>)],
      [action |-> "write", context |-> NewContext(<<"s", "/", "a">>)],
      [action |-> "write", context |-> WithDiff(NewContext(<<"s", "/", "a">>), <<"1">>)],
      [action |-> "write",
       context |-> WithDiff(NewContext(<<"s", "/", "a">>), <<"1", "\n", "2">>)],
      [action |-> "write", context |-> NewContext(PathSecret)],
      [action |-> "write",
       context |-> WithDiff(NewContext(<<".", "/", "s", "/", "/", "k">>), <<"1">>)],
      [action |-> "delete", context |-> NewContext(<<"/", "t", "/", "a">>)],
      [action |-> "delete", context |-> NewContext(PathTmp)],
      [action |-> "delete", context |-> NewContext(<<"/", "t", "x">>)],
      [action |-> "delete", context |-> NewContext(<<"/", "s">>)],
      [action |-> "run_cmd", context |-> NewContext(<<"s", "h">>)],
      [action |-> "run_cmd",
       context |-> WithCommand(NewContext(<<"s", "h">>), <<"r", " ", "x">>)],
      [action |-> "run_cmd",
       context |-> WithCommand(NewContext(<<"s", "h">>), <<"l", "s">>)],
      [action |-> "git_push", context |-> NewContext(<<"m">>)],
      [action |-> "network", context |-> NewContext(<<"u">>)],
      [action |-> "network", context |-> WithDomain(NewContext(<<"u">>), DomainGit)],
      [action |-> "network",
       context |-> WithDomain(NewContext(<<"u">>), <<"e", ".", "c">>)] }

(***************************************************************************)
(* gateway/protocol.rs, gateway/handlers/network.rs and the pure parts of  *)
(* gateway/server.rs                                                       *)
(***************************************************************************)
ResponseAllowed(request_id, result) ==
    [request_id |-> request_id, allowed |-> TRUE, error |-> None,
     result |-> Some(result)]

ResponseDenied(request_id, reason) ==
    [request_id |-> request_id, allowed |-> FALSE, error |-> Some(reason),
     result |-> None]

InternalError(request_id, error) ==
    [request_id |-> request_id, allowed |-> FALSE,
     error |-> Some(<<"Internal error: ">> \o error), result |-> None]

\* handlers::network::extract_domain
ExtractDomain(url) ==
    LET https == <<"h", "t", "t", "p", "s", ":", "/", "/">>
        http  == <<"h", "t", "t", "p", ":", "/", "/">>
        rest  == IF StartsWith(url, https)
                 THEN Some(SubSeq(url, Len(https) + 1, Len(url)))
                 ELSE IF StartsWith(url, http)
                 THEN Some(SubSeq(url, Len(http) + 1, Len(url)))
                 ELSE None
    IN IF rest = None THEN None
       ELSE Some(Split(Split(Unwrap(rest), "/")[1], ":")[1])

\* The action context process_request builds from a request.
BuildContext(request) ==
    LET base == NewContext(request.target)
    IN IF request.payload = None THEN base
       ELSE CASE request.action = "write" -> WithDiff(base, Unwrap(request.payload))
              [] request.action = "run_cmd" -> WithCommand(base, Unwrap(request.payload))
              [] request.action = "network" ->
                   IF IsSome(ExtractDomain(Unwrap(request.payload)))
                   THEN WithDomain(base, Unwrap(ExtractDomain(Unwrap(request.payload))))
                   ELSE base
              [] OTHER -> base

SessionId == <<"session">>

AgentName == <<"agent">>

\* The LogEntry of process_request.  The timestamp and the evaluation time
\* are left out.  request_id is not a field of LogEntry: it is kept beside
\* the record to tell which request a line of the file was written for.
NewLogEntry(request, final_decision, approved_by) ==
    [session_id |-> SessionId, agent |-> AgentName, action |-> request.action,
     target |-> request.target, policy_rule |-> final_decision.matched_rule,
     decision |-> final_decision, diff |-> request.payload,
     approved_by |-> approved_by, request_id |-> request.request_id]

\* The policy of the session the gateway serves.
GatewayPolicy ==
    [law |-> Law,
     rules |-> << Deny("write", [NoConditions EXCEPT !.if_path_matches = <<GlobEnv>>], None),
                  Allow("write", [NoConditions EXCEPT !.if_path_matches = <<GlobSrc>>,
                                                      !.max_diff_lines = Some(1)]),
                  Deny("delete", [NoConditions EXCEPT !.unless_path = <<PathTmp>>], None),
                  RequireApproval("git_push", NoConditions, None),
                  Deny("run_cmd", [NoConditions EXCEPT !.if_matches = <<CmdGlobRm>>], None),
                  Allow("run_cmd", NoConditions),
                  Deny("network", [NoConditions EXCEPT !.unless_domain = <<DomainGit>>], None) >>]

\* The lines a client sends: requests the policy allows, denies and holds
\* for approval, and a line that does not parse as a GatewayRequest.
ClientLines ==
    { [valid |-> TRUE, action |-> "write", target |-> <<"s", "/", "a">>,
       payload |-> Some(<<"1">>)],
      [valid |-> TRUE, action |-> "delete", target |-> <<"/", "s">>, payload |-> None],
      [valid |-> TRUE, action |-> "git_push", target |-> <<"m">>, payload |-> None],
      [valid |-> FALSE] }

\* What execute_action returns: the handler's output or its error.
HandlerResults ==
    { [ok |-> TRUE, value |-> <<"output">>], [ok |-> FALSE, value |-> <<"handler failed">>] }

\* What request_approval returns: a response of the broker, or an error.
ApprovalResults ==
    { [ok |-> TRUE, approved |-> TRUE, approved_by |-> Some(<<"auto">>)],
      [ok |-> TRUE, approved |-> TRUE, approved_by |-> None],
      [ok |-> TRUE, approved |-> FALSE, approved_by |-> None],
      [ok |-> FALSE, value |-> <<"no terminal">>] }

Conns == 1..NumConns

\* The request_id of line k of connection c (clients draw fresh ids).
RequestId(c, k) == <<"r", ToString(c), ToString(k)>>

UnknownId == <<"unknown">>

\* The locals of a connection task between two requests.
ReadingTask(nread) ==
    [pc |-> "read", nread |-> nread, request |-> None, decision |-> None,
     approval |-> None, executed |-> None, response |-> None,
     final_decision |-> None, approved_by |-> None]

(***************************************************************************)
(* One call of PolicyEngine::evaluate, a rule of the loop at a time.       *)
(***************************************************************************)
VARIABLES
    engine,             \* the PolicyEngine (policy and compiled rules)
    action,             \* the query action
    context,            \* the query ActionContext
    pc,                 \* "call", "loop" or "return"
    normalized_target,  \* the local of evaluate
    idx,                \* the position of the loop in compiled_rules
    decision,           \* the value returned, None until the return
    task,               \* gateway: the locals of each connection task
    audit,              \* gateway: the lines of the session's audit file
    entry_count,        \* gateway: AuditLogger::entry_count
    emitted,            \* gateway: the responses written, in the order written
    hist,               \* gateway: what happened to each line read (history)
    fs,                 \* one call examined alone: the file system it works on
    arg,                \* one call examined alone: its input
    returned,           \* one call examined alone: what it returned, None before
    hook,               \* one run of the hook: its locals, journal and exit code
    logger              \* the AuditLogger alone: its file, count, lock and callers

engineVars == <<action, context, pc, normalized_target, idx, decision>>

gatewayVars == <<task, audit, entry_count, emitted, hist>>

callVars == <<fs, arg, returned, hook, logger>>

vars == <<engine, action, context, pc, normalized_target, idx, decision,
          task, audit, entry_count, emitted, hist, fs, arg, returned, hook, logger>>

\* No call of a handler, of the parser, of the reader or of the hook is
\* examined beside the engine or the gateway.
NoCall ==
    /\ fs = <<>>
    /\ arg = <<>>
    /\ returned = <<>>
    /\ hook = <<>>
    /\ logger = <<>>

\* No gateway runs beside a call of the engine that is examined alone.
NoGateway ==
    /\ task = <<>>
    /\ audit = <<>>
    /\ entry_count = 0
    /\ emitted = <<>>
    /\ hist = <<>>

EngineInit ==
    /\ NoGateway
    /\ NoCall
    /\ engine \in {NewEngine(p) : p \in Policies}
    /\ \E q \in Queries : action = q.action /\ context = q.context
    /\ pc = "call"
    /\ normalized_target = <<>>
    /\ idx = 0
    /\ decision = None

\* engine.rs:114
EvalEnter ==
    /\ pc = "call"
    /\ normalized_target' = NormalizePath(context.target)
    /\ idx' = 1
    /\ pc' = "loop"
    /\ UNCHANGED <<engine, action, context, decision>>
    /\ UNCHANGED gatewayVars
    /\ UNCHANGED callVars

\* A variant of the iteration in which a resolving rule records its verdict
\* and the loop goes on, so that the last resolving rule decides.
EvalStepLastMatchWins ==
    /\ pc = "loop"
    /\ idx <= Len(engine.compiled_rules)
    /\ LET r == LoopBody(engine.policy.law, engine.compiled_rules[idx], action,
                         normalized_target, context)
       IN IF idx = Len(engine.compiled_rules) /\ (IsSome(r) \/ IsSome(decision))
          THEN decision' = (IF IsSome(r) THEN r ELSE decision)
               /\ pc' = "return" /\ idx' = idx
          ELSE decision' = (IF IsSome(r) THEN r ELSE decision)
               /\ pc' = pc /\ idx' = idx + 1
    /\ UNCHANGED <<engine, action, context, normalized_target>>
    /\ UNCHANGED gatewayVars
    /\ UNCHANGED callVars

\* A variant of the iteration that does not advance past a rule that does
\* not resolve the query.
EvalStepNotAdvancing ==
    /\ pc = "loop"
    /\ idx <= Len(engine.compiled_rules)
    /\ LET r == LoopBody(engine.policy.law, engine.compiled_rules[idx], action,
                         normalized_target, context)
       IN IF IsSome(r)
          THEN decision' = r /\ pc' = "return" /\ idx' = idx
          ELSE decision' = decision /\ pc' = pc /\ idx' = idx
    /\ UNCHANGED <<engine, action, context, normalized_target>>
    /\ UNCHANGED gatewayVars
    /\ UNCHANGED callVars

\* engine.rs:117-142, one iteration
EvalStep ==
    /\ pc = "loop"
    /\ idx <= Len(engine.compiled_rules)
    /\ LET r == LoopBody(engine.policy.law, engine.compiled_rules[idx], action,
                         normalized_target, context)
       IN IF IsSome(r)
          THEN decision' = r /\ pc' = "return" /\ idx' = idx
          ELSE decision' = decision /\ pc' = pc /\ idx' = idx + 1
    /\ UNCHANGED <<engine, action, context, normalized_target>>
    /\ UNCHANGED gatewayVars
    /\ UNCHANGED callVars

\* engine.rs:145
EvalDefault ==
    /\ pc = "loop"
    /\ idx > Len(engine.compiled_rules)
    /\ decision' = Some(DefaultDecision(action))
    /\ pc' = "return"
    /\ UNCHANGED <<engine, action, context, normalized_target, idx>>
    /\ UNCHANGED gatewayVars
    /\ UNCHANGED callVars

EngineNext == EvalEnter \/ EvalStep \/ EvalDefault

Spec == EngineInit /\ [][EngineNext]_vars

\* evaluate is a synchronous call: once entered it runs to its return.
LiveSpec == EngineInit /\ [][EngineNext]_vars /\ WF_vars(EngineNext)


(***************************************************************************)
(* Properties of evaluate.  They are stated over the rule list itself,     *)
(* not over the loop: which rules resolve the query, and what each gives.  *)
(***************************************************************************)
NumRules == Len(engine.compiled_rules)

TheRule(i) == engine.compiled_rules[i].rule

Outcome(i) ==
    CheckConditions(engine.compiled_rules[i], action,
                    NormalizePath(context.target), context)

\* Rule i resolves the query: its action is the query action and its
\* conditions give Matched, or ExceptionMatched on a Deny rule.
Resolves(i) ==
    /\ TheRule(i).action = action
    /\ \/ Outcome(i) = "Matched"
       \/ Outcome(i) = "ExceptionMatched" /\ TheRule(i).type = "Deny"

NoEarlierResolves(i) == \A j \in 1..(i - 1) : ~Resolves(j)

VerdictOf(i) ==
    IF Outcome(i) = "Matched"
    THEN RuleToDecision(engine.policy.law, TheRule(i))
    ELSE Allowed(Some(Describe(TheRule(i)) \o <<" (exception)">>))

PrefixEngine(i) ==
    NewEngine([law |-> engine.policy.law,
               rules |-> SubSeq(engine.policy.rules, 1, i)])

\* C1: first match wins.  The decision returned is the verdict of the
\* lowest-index rule that resolves the query, and it is the decision of the
\* policy cut after that rule: no rule at a higher index influences it.
FirstMatchWins ==
    pc = "return" =>
        \A i \in 1..NumRules :
            Resolves(i) /\ NoEarlierResolves(i) =>
                /\ decision = Some(VerdictOf(i))
                /\ decision = Some(Evaluate(PrefixEngine(i), action, context))

\* Two rules resolve the query with different verdicts and the first decides.
FirstMatchWinsWitness ==
    /\ pc = "return"
    /\ \E i, j \in 1..NumRules :
          /\ i < j
          /\ Resolves(i) /\ Resolves(j)
          /\ VerdictOf(i).decision # VerdictOf(j).decision
          /\ decision = Some(VerdictOf(i))

\* The target matches an unless_path entry: a glob entry as a glob, a simple
\* path P as P itself or as anything below P/.
PathEntryMatches(entry, target) ==
    IF IsGlob(entry) THEN GlobMatch(entry, target)
    ELSE \/ target = TrimEndSlash(entry)
         \/ StartsWith(target, TrimEndSlash(entry) \o <<"/">>)

ExceptionHit(rule) ==
    \/ \E k \in 1..Len(rule.conditions.unless_path) :
          PathEntryMatches(rule.conditions.unless_path[k],
                           NormalizePath(context.target))
    \/ /\ IsSome(context.domain)
       /\ \E k \in 1..Len(rule.conditions.unless_domain) :
             EndsWith(Unwrap(context.domain), rule.conditions.unless_domain[k])

OtherConditionsHold(rule) ==
    /\ \/ rule.conditions.if_path_matches = <<>>
       \/ \E k \in 1..Len(rule.conditions.if_path_matches) :
             GlobMatch(rule.conditions.if_path_matches[k],
                       NormalizePath(context.target))
    /\ \/ rule.conditions.if_matches = <<>>
       \/ action # "run_cmd"
       \/ /\ IsSome(context.command)
          /\ CommandMatches(Unwrap(context.command), rule.conditions.if_matches)
    /\ \/ rule.conditions.max_diff_lines = None
       \/ context.diff_lines = None
       \/ Unwrap(context.diff_lines) <= Unwrap(rule.conditions.max_diff_lines)

HasException(rule) ==
    rule.conditions.unless_path # <<>> \/ rule.conditions.unless_domain # <<>>

\* C2: unless-exception.  For a Deny rule R of the query action with an
\* unless_path or unless_domain, reached with no earlier rule resolving the
\* query: a target (or domain) that matches an exception is Allowed with
\* matched_rule "<R's description> (exception)"; one that matches none and
\* satisfies R's other conditions is Denied by R.
UnlessException ==
    pc = "return" =>
        \A i \in 1..NumRules :
            (/\ TheRule(i).type = "Deny"
             /\ TheRule(i).action = action
             /\ HasException(TheRule(i))
             /\ NoEarlierResolves(i)) =>
                /\ ExceptionHit(TheRule(i)) =>
                      decision = Some(Allowed(Some(Describe(TheRule(i))
                                                   \o <<" (exception)">>)))
                /\ (~ExceptionHit(TheRule(i)) /\ OtherConditionsHold(TheRule(i))) =>
                      /\ Unwrap(decision).decision = "Denied"
                      /\ Unwrap(decision).matched_rule = Some(Describe(TheRule(i)))

\* A Deny rule in second place, after a rule of the same action that does
\* not resolve the query, allows the target by its exception.
UnlessExceptionWitness ==
    /\ pc = "return"
    /\ NumRules >= 2
    /\ TheRule(1).action = action
    /\ ~Resolves(1)
    /\ TheRule(2).type = "Deny"
    /\ TheRule(2).action = action
    /\ HasException(TheRule(2))
    /\ ExceptionHit(TheRule(2))
    /\ decision = Some(Allowed(Some(Describe(TheRule(2)) \o <<" (exception)">>)))

\* C3: the default verdict.  When no rule resolves the query the decision is
\* Denied with no matched rule for Delete, RunCmd and GitPush, and Allowed
\* with no matched rule for Write and Network; so a policy with no rule for
\* a destructive action denies it with no matched rule.
DefaultVerdict ==
    pc = "return" =>
        /\ (\A i \in 1..NumRules : ~Resolves(i)) =>
              /\ action \in {"delete", "run_cmd", "git_push"} =>
                    /\ Unwrap(decision).decision = "Denied"
                    /\ Unwrap(decision).matched_rule = None
              /\ action \in {"write", "network"} => decision = Some(Allowed(None))
        /\ (/\ action \in {"delete", "run_cmd", "git_push"}
            /\ \A i \in 1..NumRules : TheRule(i).action # action) =>
              /\ Unwrap(decision).decision = "Denied"
              /\ Unwrap(decision).matched_rule = None

\* A push that no rule of the policy governs is denied by the default.
DefaultVerdictWitness ==
    /\ pc = "return"
    /\ action = "git_push"
    /\ \A i \in 1..NumRules : TheRule(i).action # "git_push"
    /\ Unwrap(decision).decision = "Denied"
    /\ Unwrap(decision).matched_rule = None

\* C4: every call of evaluate returns, and what it returns is one decision:
\* Allowed, Denied or RequiresApproval, left unchanged after the return.
EvaluateTerminates ==
    /\ <>(pc = "return")
    /\ [](pc = "return" =>
            /\ IsSome(decision)
            /\ Unwrap(decision).decision \in {"Allowed", "Denied", "RequiresApproval"})
    /\ [][pc = "return" => decision' = decision]_vars

\* The loop went past every rule of a full-length policy before returning.
EvaluateTerminatesWitness ==
    /\ pc = "return"
    /\ NumRules = MaxRules
    /\ idx > NumRules
    /\ IsSome(decision)


(***************************************************************************)
(* The gateway server: GatewayServer::run, handle_connection and           *)
(* process_request.  A connection task moves through                       *)
(*   listen -> read -> (approval ->) log -> respond                        *)
(* and back to read.  The steps between two suspension points of the task  *)
(* (socket read, broker call, logger lock, socket write) are one action:   *)
(* execute_action has no suspension point of its own, so the handler runs  *)
(* in the action that reaches it, with the handler's result as an input.   *)
(***************************************************************************)
\* What is remembered of a line read: its connection, the request parsed
\* from it (None for a line that does not parse), the decision of the
\* engine, the results of the broker, the handler and the log call, and
\* its rank among the lines read by the gateway.
HistEntry(c, request, d) ==
    [conn |-> c, request |-> request, decision |-> d, broker |-> None,
     handler |-> None, log |-> None, arrival |-> Cardinality(DOMAIN hist) + 1]

\* AfterExecute auditing a handler failure as a denial of the request.
AfterExecuteAuditingDenied(t, result) ==
    LET id == Unwrap(t.request).request_id
    IN IF ~result.ok
       THEN [t EXCEPT !.pc = "log", !.executed = Some(result.ok),
                      !.response = Some(InternalError(id, result.value)),
                      !.final_decision = Some(Denied(result.value, None))]
       ELSE IF t.approval = None
       THEN [t EXCEPT !.pc = "log", !.executed = Some(result.ok),
                      !.response = Some(ResponseAllowed(id, result.value)),
                      !.final_decision = t.decision]
       ELSE [t EXCEPT !.pc = "log", !.executed = Some(result.ok),
                      !.response = Some(ResponseAllowed(id, result.value)),
                      !.final_decision = Some(Allowed(Some(<<"approved by human">>))),
                      !.approved_by =
                          Some(UnwrapOr(Unwrap(t.approval).approved_by, <<"terminal">>))]

\* The arms after execute_action returned (server.rs:207-221, 244-264).
\* t.executed records that the handler was invoked for the request.
AfterExecute(t, result) ==
    LET id == Unwrap(t.request).request_id
    IN IF ~result.ok
       THEN [t EXCEPT !.pc = "log", !.executed = Some(result.ok),
                      !.response = Some(InternalError(id, result.value)),
                      !.final_decision = t.decision]
       ELSE IF t.approval = None
       THEN [t EXCEPT !.pc = "log", !.executed = Some(result.ok),
                      !.response = Some(ResponseAllowed(id, result.value)),
                      !.final_decision = t.decision]
       ELSE [t EXCEPT !.pc = "log", !.executed = Some(result.ok),
                      !.response = Some(ResponseAllowed(id, result.value)),
                      !.final_decision = Some(Allowed(Some(<<"approved by human">>))),
                      !.approved_by =
                          Some(UnwrapOr(Unwrap(t.approval).approved_by, <<"terminal">>))]

\* Dispatch with the arm of Denied calling the handler as the arm of Allowed
\* does.
DispatchExecutingDenied(nread, request, d, result) ==
    LET t == [ReadingTask(nread) EXCEPT !.request = Some(request),
                                         !.decision = Some(d)]
    IN CASE d.decision \in {"Allowed", "Denied"} -> AfterExecute(t, result)
         [] OTHER -> [t EXCEPT !.pc = "approval"]

\* The match on the decision in process_request (server.rs:204-229), to the
\* point where the task has its response or calls the broker.
Dispatch(nread, request, d, result) ==
    LET t == [ReadingTask(nread) EXCEPT !.request = Some(request),
                                         !.decision = Some(d)]
    IN CASE d.decision = "Allowed" -> AfterExecute(t, result)
         [] d.decision = "Denied" ->
              [t EXCEPT !.pc = "log",
                        !.response = Some(ResponseDenied(request.request_id, d.reason)),
                        !.final_decision = Some(d)]
         [] OTHER -> [t EXCEPT !.pc = "approval"]

\* AfterApproval failing open: an error of the broker counts as an approval.
AfterApprovalFailingOpen(t, outcome, result) ==
    LET id == Unwrap(t.request).request_id
    IN IF ~outcome.ok \/ outcome.approved
       THEN AfterExecute([t EXCEPT !.approval = Some(outcome)], result)
       ELSE [t EXCEPT !.pc = "log", !.approval = Some(outcome),
                      !.response = Some(ResponseDenied(id, <<"Denied by human reviewer">>)),
                      !.final_decision = Some(Denied(<<"Denied by human reviewer">>,
                                                     Some(<<"human review">>)))]

\* The arms after request_approval returned (server.rs:240-290).
AfterApproval(t, outcome, result) ==
    LET id == Unwrap(t.request).request_id
    IN IF ~outcome.ok
       THEN [t EXCEPT !.pc = "log", !.approval = Some(outcome),
                      !.response = Some(ResponseDenied(
                          id, <<"Approval flow error: ">> \o outcome.value)),
                      !.final_decision = Some(Denied(
                          <<"Approval flow error: ">> \o outcome.value, None))]
       ELSE IF outcome.approved
       THEN AfterExecute([t EXCEPT !.approval = Some(outcome)], result)
       ELSE [t EXCEPT !.pc = "log", !.approval = Some(outcome),
                      !.response = Some(ResponseDenied(id, <<"Denied by human reviewer">>)),
                      !.final_decision = Some(Denied(<<"Denied by human reviewer">>,
                                                     Some(<<"human review">>)))]

GatewayInit ==
    /\ engine = NewEngine(GatewayPolicy)
    /\ action = "write"
    /\ context = NewContext(<<>>)
    /\ pc = "idle"
    /\ normalized_target = <<>>
    /\ idx = 0
    /\ decision = None
    /\ task = [c \in Conns |-> [ReadingTask(0) EXCEPT !.pc = "listen"]]
    /\ audit = <<>>
    /\ entry_count = 0
    /\ emitted = <<>>
    /\ hist = <<>>
    /\ NoCall

\* GatewayServer::run: accept a connection and spawn its task.  The accept
\* loop takes one connection after the other: c is the c-th accepted.
Accept(c) ==
    /\ task[c].pc = "listen"
    /\ \A b \in Conns : b < c => task[b].pc # "listen"
    /\ task' = [task EXCEPT ![c].pc = "read"]
    /\ UNCHANGED <<engine, audit, entry_count, emitted, hist>>
    /\ UNCHANGED engineVars
    /\ UNCHANGED callVars

\* ReadRequest reading the next line while the response to the line before
\* is still to be written.
ReadRequestPipelined(c, line, result) ==
    /\ task[c].pc \in {"read", "respond"}
    /\ Cardinality(DOMAIN hist) < MaxLines
    /\ LET k  == task[c].nread + 1
           id == RequestId(c, k)
       IN IF ~line.valid
          THEN /\ task' = [task EXCEPT ![c] =
                             [ReadingTask(k) EXCEPT
                                 !.pc = "respond",
                                 !.response = Some(InternalError(
                                     UnknownId, <<"Invalid request JSON">>))]]
               /\ hist' = hist @@ (id :> HistEntry(c, None, None))
          ELSE LET request == [request_id |-> id, action |-> line.action,
                               target |-> line.target, payload |-> line.payload]
                   d == Evaluate(engine, request.action, BuildContext(request))
               IN /\ task' = [task EXCEPT ![c] = Dispatch(k, request, d, result)]
                  /\ hist' = hist @@ (id :> [HistEntry(c, Some(request), Some(d))
                                               EXCEPT !.handler =
                                                   Dispatch(k, request, d, result).executed])
    /\ UNCHANGED <<engine, audit, entry_count, emitted>>
    /\ UNCHANGED engineVars
    /\ UNCHANGED callVars

\* handle_connection: read a line and parse it; process_request: build the
\* context, evaluate, and match on the decision.
ReadRequest(c, line, result) ==
    /\ task[c].pc = "read"
    /\ Cardinality(DOMAIN hist) < MaxLines
    /\ LET k  == task[c].nread + 1
           id == RequestId(c, k)
       IN IF ~line.valid
          THEN /\ task' = [task EXCEPT ![c] =
                             [ReadingTask(k) EXCEPT
                                 !.pc = "respond",
                                 !.response = Some(InternalError(
                                     UnknownId, <<"Invalid request JSON">>))]]
               /\ hist' = hist @@ (id :> HistEntry(c, None, None))
          ELSE LET request == [request_id |-> id, action |-> line.action,
                               target |-> line.target, payload |-> line.payload]
                   d == Evaluate(engine, request.action, BuildContext(request))
               IN /\ task' = [task EXCEPT ![c] = Dispatch(k, request, d, result)]
                  /\ hist' = hist @@ (id :> [HistEntry(c, Some(request), Some(d))
                                               EXCEPT !.handler =
                                                   Dispatch(k, request, d, result).executed])
    /\ UNCHANGED <<engine, audit, entry_count, emitted>>
    /\ UNCHANGED engineVars
    /\ UNCHANGED callVars

\* handle_connection: the peer closed the connection, or the read failed.
ReadEof(c) ==
    /\ task[c].pc = "read"
    /\ task' = [task EXCEPT ![c].pc = "closed"]
    /\ UNCHANGED <<engine, audit, entry_count, emitted, hist>>
    /\ UNCHANGED engineVars
    /\ UNCHANGED callVars

\* process_request: request_approval returns, and on approval the handler
\* is invoked.
ApprovalReturns(c, outcome, result) ==
    /\ task[c].pc = "approval"
    /\ task' = [task EXCEPT ![c] = AfterApproval(task[c], outcome, result)]
    /\ hist' = [hist EXCEPT ![Unwrap(task[c].request).request_id] =
                    [@ EXCEPT !.broker = Some(outcome),
                              !.handler = AfterApproval(task[c], outcome, result).executed]]
    /\ UNCHANGED <<engine, audit, entry_count, emitted>>
    /\ UNCHANGED engineVars
    /\ UNCHANGED callVars

\* WriteAudit putting the new line at the head of the file.
WriteAuditPrepending(c, ok) ==
    /\ task[c].pc = "log"
    /\ LET t == task[c]
           entry == NewLogEntry(Unwrap(t.request), Unwrap(t.final_decision),
                                t.approved_by)
       IN /\ IF ok
             THEN audit' = <<entry>> \o audit /\ entry_count' = entry_count + 1
             ELSE audit' = audit /\ entry_count' = entry_count
          /\ hist' = [hist EXCEPT ![Unwrap(t.request).request_id].log = Some(ok)]
    /\ task' = [task EXCEPT ![c].pc = "respond"]
    /\ UNCHANGED <<engine, emitted>>
    /\ UNCHANGED engineVars
    /\ UNCHANGED callVars

\* WriteAudit waiting for the journal while a task of another connection is
\* in request_approval, as if that task held the lock during its wait.
WriteAuditBehindApproval(c, ok) ==
    /\ task[c].pc = "log"
    /\ \A b \in Conns : task[b].pc # "approval"
    /\ LET t == task[c]
           entry == NewLogEntry(Unwrap(t.request), Unwrap(t.final_decision),
                                t.approved_by)
       IN /\ IF ok
             THEN audit' = Append(audit, entry) /\ entry_count' = entry_count + 1
             ELSE audit' = audit /\ entry_count' = entry_count
          /\ hist' = [hist EXCEPT ![Unwrap(t.request).request_id].log = Some(ok)]
    /\ task' = [task EXCEPT ![c].pc = "respond"]
    /\ UNCHANGED <<engine, emitted>>
    /\ UNCHANGED engineVars
    /\ UNCHANGED callVars

\* process_request: lock the logger and log the entry (server.rs:294-314).
\* AuditLogger::log appends the line and counts it, or fails; a failure is
\* traced and the response is returned all the same.
WriteAudit(c, ok) ==
    /\ task[c].pc = "log"
    /\ LET t == task[c]
           entry == NewLogEntry(Unwrap(t.request), Unwrap(t.final_decision),
                                t.approved_by)
       IN /\ IF ok
             THEN audit' = Append(audit, entry) /\ entry_count' = entry_count + 1
             ELSE audit' = audit /\ entry_count' = entry_count
          /\ hist' = [hist EXCEPT ![Unwrap(t.request).request_id].log = Some(ok)]
    /\ task' = [task EXCEPT ![c].pc = "respond"]
    /\ UNCHANGED <<engine, emitted>>
    /\ UNCHANGED engineVars
    /\ UNCHANGED callVars

\* WriteResponse ending the task after a response that reports an error.
WriteResponseClosingOnError(c) ==
    /\ task[c].pc = "respond"
    /\ emitted' = Append(emitted, [conn |-> c, line |-> task[c].nread,
                                   response |-> Unwrap(task[c].response)])
    /\ task' = [task EXCEPT ![c] =
                   [ReadingTask(task[c].nread) EXCEPT
                       !.pc = IF Unwrap(task[c].response).allowed
                              THEN "read" ELSE "closed"]]
    /\ UNCHANGED <<engine, audit, entry_count, hist>>
    /\ UNCHANGED engineVars
    /\ UNCHANGED callVars

\* handle_connection: write the response line; the task goes back to read.
WriteResponse(c) ==
    /\ task[c].pc = "respond"
    /\ emitted' = Append(emitted, [conn |-> c, line |-> task[c].nread,
                                   response |-> Unwrap(task[c].response)])
    /\ task' = [task EXCEPT ![c] = ReadingTask(task[c].nread)]
    /\ UNCHANGED <<engine, audit, entry_count, hist>>
    /\ UNCHANGED engineVars
    /\ UNCHANGED callVars

\* handle_connection: the write to the socket fails and the task ends.
WriteFails(c) ==
    /\ task[c].pc = "respond"
    /\ task' = [task EXCEPT ![c] = [ReadingTask(task[c].nread) EXCEPT !.pc = "closed"]]
    /\ UNCHANGED <<engine, audit, entry_count, emitted, hist>>
    /\ UNCHANGED engineVars
    /\ UNCHANGED callVars

GatewayNext ==
    \E c \in Conns :
        \/ Accept(c)
        \/ \E line \in ClientLines, result \in HandlerResults :
              ReadRequest(c, line, result)
        \/ ReadEof(c)
        \/ \E outcome \in ApprovalResults, result \in HandlerResults :
              ApprovalReturns(c, outcome, result)
        \/ \E ok \in BOOLEAN : WriteAudit(c, ok)
        \/ WriteResponse(c)
        \/ WriteFails(c)

GatewaySpec == GatewayInit /\ [][GatewayNext]_vars

(***************************************************************************)
(* The gateway: what is asked of a session.                                *)
(***************************************************************************)
\* The lines read so far that parsed as requests, by request_id.
Requests == {id \in DOMAIN hist : hist[id].request # None}

\* The engine's decision for a request.
EngineDecision(id) == Unwrap(hist[id].decision)

\* The lines of the audit file written for a request.
RecordsOf(id) == {i \in 1..Len(audit) : audit[i].request_id = id}

\* The responses written for a line read.
ResponsesTo(id) ==
    {j \in 1..Len(emitted) : RequestId(emitted[j].conn, emitted[j].line) = id}

\* The broker approved the request.
BrokerApproved(id) ==
    /\ hist[id].broker # None
    /\ Unwrap(hist[id].broker).ok
    /\ Unwrap(hist[id].broker).approved

\* C5: a request the engine denies never reaches a handler (and no broker):
\* its response has allowed = false and the reason of the denial, and every
\* line of the audit file written for it carries the engine's decision
\* unchanged, with no approver.
DeniedNeverExecutes ==
    \A id \in Requests :
        EngineDecision(id).decision = "Denied" =>
            /\ hist[id].handler = None
            /\ hist[id].broker = None
            /\ \A j \in ResponsesTo(id) :
                  /\ emitted[j].response.request_id = id
                  /\ emitted[j].response.allowed = FALSE
                  /\ emitted[j].response.error = Some(EngineDecision(id).reason)
                  /\ emitted[j].response.result = None
            /\ \A i \in RecordsOf(id) :
                  /\ audit[i].decision = EngineDecision(id)
                  /\ audit[i].policy_rule = EngineDecision(id).matched_rule
                  /\ audit[i].approved_by = None

\* A denied request has been audited and answered.
DeniedNeverExecutesWitness ==
    \E id \in Requests :
        /\ EngineDecision(id).decision = "Denied"
        /\ RecordsOf(id) # {}
        /\ ResponsesTo(id) # {}

\* C6: for a request the engine holds for approval the handler is invoked
\* only once the broker has returned approved = true; after a refusal or an
\* error of the broker the handler is not invoked, the response has
\* allowed = false, and the audit record is Denied, with matched_rule
\* "human review" after a refusal and None after an error.
FailsClosedOnApproval ==
    \A id \in Requests :
        EngineDecision(id).decision = "RequiresApproval" =>
            /\ hist[id].handler # None => BrokerApproved(id)
            /\ (hist[id].broker # None /\ ~BrokerApproved(id)) =>
                  /\ hist[id].handler = None
                  /\ \A j \in ResponsesTo(id) :
                        /\ emitted[j].response.allowed = FALSE
                        /\ emitted[j].response.result = None
                  /\ \A i \in RecordsOf(id) :
                        /\ audit[i].decision.decision = "Denied"
                        /\ audit[i].policy_rule =
                              (IF Unwrap(hist[id].broker).ok
                               THEN Some(<<"human review">>) ELSE None)
                        /\ audit[i].decision.matched_rule = audit[i].policy_rule

\* A refused request and a request whose broker call failed have both been
\* audited and answered.
FailsClosedOnApprovalWitness ==
    \E id1, id2 \in Requests :
        /\ EngineDecision(id1).decision = "RequiresApproval"
        /\ EngineDecision(id2).decision = "RequiresApproval"
        /\ hist[id1].broker # None /\ Unwrap(hist[id1].broker).ok
        /\ ~BrokerApproved(id1)
        /\ hist[id2].broker # None /\ ~Unwrap(hist[id2].broker).ok
        /\ RecordsOf(id1) # {} /\ ResponsesTo(id1) # {}
        /\ RecordsOf(id2) # {} /\ ResponsesTo(id2) # {}

\* C7: every request that has its response has exactly one audit record,
\* which is in the file by the time the response is written; no response
\* is written for a request without an audit record.
OneAuditRecordBeforeResponse ==
    \A id \in Requests :
        /\ Cardinality(RecordsOf(id)) <= 1
        /\ ResponsesTo(id) # {} => Cardinality(RecordsOf(id)) = 1

\* The requests that have both a line in the audit file and a response.
Concluded == {id \in Requests : RecordsOf(id) # {} /\ ResponsesTo(id) # {}}

\* The position of the (first) audit line and of the (first) response of a
\* concluded request.
RecordIndex(id) == CHOOSE i \in RecordsOf(id) : \A k \in RecordsOf(id) : i <= k

ResponseIndex(id) == CHOOSE j \in ResponsesTo(id) : \A k \in ResponsesTo(id) : j <= k

\* C8 as stated: the lines of the audit file are in the order in which the
\* responses of their requests are written, whatever the connections.
AuditOrderIsResponseOrder ==
    \A id1, id2 \in Concluded :
        RecordIndex(id1) < RecordIndex(id2) =>
            ResponseIndex(id1) < ResponseIndex(id2)

\* C8 (amended): for requests of one connection the lines of the audit file
\* are in the order of their responses; between connections the order of
\* the file is the order in which the tasks took the logger.
AuditOrderPerConnection ==
    \A id1, id2 \in Concluded :
        (hist[id1].conn = hist[id2].conn
         /\ RecordIndex(id1) < RecordIndex(id2)) =>
            ResponseIndex(id1) < ResponseIndex(id2)

\* Two requests of one connection are in the file and answered, beside a
\* second connection that is served.
AuditOrderPerConnectionWitness ==
    /\ \E id1, id2 \in Concluded : id1 # id2 /\ hist[id1].conn = hist[id2].conn
    /\ \A c \in Conns : task[c].pc # "listen"

\* The responses written on connection c, in the order written.
ResponsesOn(c) == SelectSeq(emitted, LAMBDA e : e.conn = c)

\* C9: on a connection the k-th response answers the k-th line, with the
\* request_id of that line when it is a request; no line is answered twice;
\* and a line is read only when every line before it has its response:
\* while line N is in process the N-1 lines before it are answered, and
\* when the task reads again all N are.
StrictlySerialised ==
    \A c \in Conns :
        LET rs == ResponsesOn(c)
            n  == task[c].nread
        IN /\ \A k \in 1..Len(rs) :
                 /\ rs[k].line = k
                 /\ RequestId(c, k) \in DOMAIN hist
                 /\ RequestId(c, k) \in Requests =>
                       rs[k].response.request_id = RequestId(c, k)
           /\ task[c].pc \in {"approval", "log", "respond"} => Len(rs) = n - 1
           /\ task[c].pc \in {"listen", "read"} => Len(rs) = n
           /\ task[c].pc = "closed" => Len(rs) \in {n - 1, n}

\* A connection has read two lines and written the two responses.
StrictlySerialisedWitness ==
    \E c \in Conns :
        /\ task[c].nread = 2
        /\ Len(ResponsesOn(c)) = 2
        /\ RequestId(c, 1) \in Requests
        /\ RequestId(c, 2) \in Requests

\* The lines read in which a runtime error happened: a line that is not a
\* request, a handler that failed, a broker that failed.
IsProtocolError(id) == hist[id].request = None

IsHandlerFailure(id) == hist[id].handler = Some(FALSE)

IsApprovalError(id) == hist[id].broker # None /\ ~Unwrap(hist[id].broker).ok

ErrorsAnswered ==
    /\ entry_count = Len(audit)
    /\ Len(audit) = Cardinality({id \in DOMAIN hist : hist[id].log = Some(TRUE)})
    /\ \A id \in DOMAIN hist :
          /\ IsProtocolError(id) =>
                /\ hist[id].log = None
                /\ RecordsOf(id) = {}
                /\ \A j \in ResponsesTo(id) :
                      /\ emitted[j].response.request_id = UnknownId
                      /\ emitted[j].response.allowed = FALSE
          /\ (IsHandlerFailure(id) \/ IsApprovalError(id)) =>
                /\ Cardinality(ResponsesTo(id)) <= 1
                /\ Cardinality(RecordsOf(id)) <= 1
                /\ ResponsesTo(id) # {} =>
                      /\ hist[id].log # None
                      /\ hist[id].log = Some(TRUE) => Cardinality(RecordsOf(id)) = 1
                      /\ \A j \in ResponsesTo(id) : emitted[j].response.allowed = FALSE

\* A step that reads a line that is not a request leaves the task about to
\* answer it, and a step that writes a response leaves the task reading.
KeepsReading ==
    \A c \in Conns :
        /\ (task[c].pc = "read" /\ task'[c].nread = task[c].nread + 1
            /\ hist'[RequestId(c, task'[c].nread)].request = None) =>
               /\ task'[c].pc = "respond"
               /\ Unwrap(task'[c].response).request_id = UnknownId
        /\ Len(ResponsesOn(c))' > Len(ResponsesOn(c)) => task'[c].pc = "read"

MaxPathLen == 3

\* workspace_root, a directory under the root directory.
WorkspaceRoot == <<"w">>

\* Path::parent: the path without its last component.
Parent(path) == SubSeq(path, 1, Len(path) - 1)

\* The resolution of a path by the system, a component at a time: `..`
\* goes to the directory above, a name goes below a directory that exists.
RECURSIVE Walk(_, _, _)
Walk(files, cur, rest) ==
    IF cur \notin DOMAIN files THEN None
    ELSE IF rest = <<>> THEN Some(cur)
    ELSE IF files[cur] # "dir" THEN None
    ELSE IF Head(rest) = ".." THEN Walk(files, Parent(cur), Tail(rest))
    ELSE Walk(files, Append(cur, Head(rest)), Tail(rest))

\* Path::canonicalize: the canonical path of a path that exists.
Canonicalize(files, path) == Walk(files, <<>>, path)

\* Path::exists
PathExists(files, path) == Canonicalize(files, path) # None

\* Path::starts_with: a prefix in whole components.
PathStartsWith(path, base) == StartsWith(path, base)

\* fs::create_dir_all: every missing directory of the path is made, from
\* the top; it stops at a component that exists and is not a directory.
RECURSIVE CreateDirAllFrom(_, _, _)
CreateDirAllFrom(files, path, k) ==
    IF k > Len(path) THEN [ok |-> TRUE, files |-> files]
    ELSE LET c     == Canonicalize(files, SubSeq(path, 1, k))
             above == Canonicalize(files, SubSeq(path, 1, k - 1))
         IN IF c # None
            THEN IF files[Unwrap(c)] = "dir"
                 THEN CreateDirAllFrom(files, path, k + 1)
                 ELSE [ok |-> FALSE, files |-> files]
            ELSE IF above = None \/ path[k] = ".."
                 THEN [ok |-> FALSE, files |-> files]
                 ELSE CreateDirAllFrom((Append(Unwrap(above), path[k]) :> "dir") @@ files,
                                       path, k + 1)

CreateDirAll(files, path) == CreateDirAllFrom(files, path, 1)

\* fs::write: the file is made or its content replaced; it fails on a
\* directory and below a directory that does not exist.
FsWrite(files, path, content) ==
    LET c     == Canonicalize(files, path)
        above == Canonicalize(files, Parent(path))
    IN IF c # None
       THEN IF files[Unwrap(c)] = "dir"
            THEN [ok |-> FALSE, files |-> files]
            ELSE [ok |-> TRUE, files |-> (Unwrap(c) :> content) @@ files]
       ELSE IF above = None \/ path[Len(path)] = ".."
            THEN [ok |-> FALSE, files |-> files]
            ELSE IF files[Unwrap(above)] # "dir"
            THEN [ok |-> FALSE, files |-> files]
            ELSE [ok |-> TRUE,
                  files |-> (Append(Unwrap(above), path[Len(path)]) :> content) @@ files]

\* fs::remove_dir_all and fs::remove_file of a canonical path.
FsRemove(files, canonical) ==
    [p \in {q \in DOMAIN files : ~PathStartsWith(q, canonical)} |-> files[p]]

\* execute_write: the result and the file system it leaves.
ExecuteWrite(files, relative_path, content) ==
    LET target_path    == WorkspaceRoot \o relative_path
        canonical_root == Canonicalize(files, WorkspaceRoot)
        parent         == Parent(target_path)
        made           == CreateDirAll(files, parent)
        last           == target_path[Len(target_path)]
        canonical_target ==
            IF PathExists(made.files, target_path)
            THEN Canonicalize(made.files, target_path)
            ELSE IF Canonicalize(made.files, parent) = None THEN None
            ELSE Some(IF last = ".."
                      THEN Unwrap(Canonicalize(made.files, parent))
                      ELSE Append(Unwrap(Canonicalize(made.files, parent)), last))
        written        == FsWrite(made.files, target_path, content)
    IN IF canonical_root = None
       THEN [ok |-> FALSE, value |-> <<"Workspace root not found">>, files |-> files]
       ELSE IF ~made.ok
       THEN [ok |-> FALSE, value |-> <<"Failed to create directory">>,
             files |-> made.files]
       ELSE IF canonical_target = None
       THEN [ok |-> FALSE, value |-> <<"canonicalize">>, files |-> made.files]
       ELSE IF ~PathStartsWith(Unwrap(canonical_target), Unwrap(canonical_root))
       THEN [ok |-> FALSE, value |-> <<"Path traversal detected">>,
             files |-> made.files]
       ELSE IF ~written.ok
       THEN [ok |-> FALSE, value |-> <<"Failed to write file">>, files |-> made.files]
       ELSE [ok |-> TRUE, value |-> <<"Written">>, files |-> written.files]

\* execute_delete: the result and the file system it leaves.
ExecuteDelete(files, relative_path) ==
    LET target_path      == WorkspaceRoot \o relative_path
        canonical_root   == Canonicalize(files, WorkspaceRoot)
        canonical_target == Canonicalize(files, target_path)
    IN IF canonical_root = None
       THEN [ok |-> FALSE, value |-> <<"Workspace root not found">>, files |-> files]
       ELSE IF canonical_target = None
       THEN [ok |-> FALSE, value |-> <<"File not found">>, files |-> files]
       ELSE IF ~PathStartsWith(Unwrap(canonical_target), Unwrap(canonical_root))
       THEN [ok |-> FALSE, value |-> <<"Path traversal detected">>, files |-> files]
       ELSE [ok |-> TRUE, value |-> <<"Deleted">>,
             files |-> FsRemove(files, Unwrap(canonical_target))]

\* The names of the components of the relative paths given to a handler.
PathNames == {"..", "d", "f", "o"}

RelativePaths == UNION {[1..n -> PathNames] : n \in 1..MaxPathLen}

\* The files and directories that may exist beside the root directory and
\* the workspace root: below the workspace and beside it.
OptionalNodes ==
    { <<"w", "d">>, <<"w", "d", "f">>, <<"w", "f">>, <<"o">>, <<"o", "f">> }

InitialFileSystems ==
    { [p \in {<<>>, WorkspaceRoot} \cup S |->
          IF p # <<>> /\ p[Len(p)] = "f" THEN "old" ELSE "dir"] :
      S \in {T \in SUBSET OptionalNodes :
                \A p \in T : Parent(p) \in T \cup {<<>>, WorkspaceRoot}} }

\* The engine is not called.
EngineIdle ==
    /\ engine = <<>>
    /\ action = "write"
    /\ context = NewContext(<<>>)
    /\ pc = "idle"
    /\ normalized_target = <<>>
    /\ idx = 0
    /\ decision = None

HandlerInit ==
    /\ EngineIdle
    /\ NoGateway
    /\ fs \in InitialFileSystems
    /\ arg = None
    /\ returned = None
    /\ hook = None
    /\ logger = <<>>

\* execute_action calls execute_write with the target and the payload.
CallWrite(relative_path) ==
    /\ returned = None
    /\ arg' = Some([op |-> "write", relative_path |-> relative_path, before |-> fs])
    /\ fs' = ExecuteWrite(fs, relative_path, "new").files
    /\ returned' = Some([ok |-> ExecuteWrite(fs, relative_path, "new").ok,
                         value |-> ExecuteWrite(fs, relative_path, "new").value])
    /\ UNCHANGED <<engine, hook, logger>>
    /\ UNCHANGED engineVars
    /\ UNCHANGED gatewayVars

\* execute_action calls execute_delete with the target.
CallDelete(relative_path) ==
    /\ returned = None
    /\ arg' = Some([op |-> "delete", relative_path |-> relative_path, before |-> fs])
    /\ fs' = ExecuteDelete(fs, relative_path).files
    /\ returned' = Some([ok |-> ExecuteDelete(fs, relative_path).ok,
                         value |-> ExecuteDelete(fs, relative_path).value])
    /\ UNCHANGED <<engine, hook, logger>>
    /\ UNCHANGED engineVars
    /\ UNCHANGED gatewayVars

HandlerNext ==
    \E relative_path \in RelativePaths :
        \/ CallWrite(relative_path)
        \/ CallDelete(relative_path)

HandlerSpec == HandlerInit /\ [][HandlerNext]_vars

\* The part of a file system that is not below the workspace root.
Outside(files) ==
    [p \in {q \in DOMAIN files : ~PathStartsWith(q, WorkspaceRoot)} |-> files[p]]

\* Where a path leads when `..` is taken off with the component before it.
RECURSIVE Lexical(_, _)
Lexical(cur, rest) ==
    IF rest = <<>> THEN cur
    ELSE IF Head(rest) = ".." THEN Lexical(Parent(cur), Tail(rest))
    ELSE Lexical(Append(cur, Head(rest)), Tail(rest))

Escapes(relative_path) ==
    ~PathStartsWith(Lexical(WorkspaceRoot, relative_path), WorkspaceRoot)

\* C11: whatever the relative path, a call of the write or of the delete
\* handler leaves everything outside the workspace root as it was, and it
\* fails when the path leads out of the workspace.
Containment ==
    returned # None =>
        /\ Outside(fs) = Outside(Unwrap(arg).before)
        /\ Escapes(Unwrap(arg).relative_path) => ~Unwrap(returned).ok

(***************************************************************************)
(* hook/main.rs: the pure parts.                                           *)
(***************************************************************************)
\* str::contains
Contains(hay, needle) == Find(hay, needle) # -1

\* str::split_whitespace: the words between runs of white space.
RECURSIVE SplitWhitespaceAcc(_, _)
SplitWhitespaceAcc(s, cur) ==
    IF s = <<>> THEN (IF cur = <<>> THEN <<>> ELSE <<cur>>)
    ELSE IF Head(s) \in WhiteSpace
         THEN (IF cur = <<>> THEN <<>> ELSE <<cur>>) \o SplitWhitespaceAcc(Tail(s), <<>>)
         ELSE SplitWhitespaceAcc(Tail(s), Append(cur, Head(s)))

SplitWhitespace(s) == SplitWhitespaceAcc(s, <<>>)

\* tool_input.get(field).and_then(as_str).unwrap_or(default)
GetStr(tool_input, field, default) ==
    IF field \in DOMAIN tool_input THEN tool_input[field] ELSE default

GitPushStr == <<"g", "i", "t", " ", "p", "u", "s", "h">>

\* hook::extract_domain: the second piece of url.split("://"), up to its
\* first "/".
HookExtractDomain(url) ==
    LET sep   == <<":", "/", "/">>
        at    == Find(url, sep)
        rest  == SubSeq(url, at + 4, Len(url))
        next  == Find(rest, sep)
        piece == IF next = -1 THEN rest ELSE SubSeq(rest, 1, next)
    IN IF at = -1 THEN None
       ELSE Some(Split(piece, "/")[1])

\* The Bash arm of map_tool_to_actions.
MapBash(command) ==
    LET trimmed   == Trim(command)
        cmd_ctx   == WithCommand(NewContext(<<"shell">>), command)
        push_part == SubSeq(trimmed, Find(trimmed, GitPushStr) + 1, Len(trimmed))
        words     == SplitWhitespace(SubSeq(push_part, Len(GitPushStr) + 1,
                                            Len(push_part)))
        branch    == IF words = <<>> THEN <<"m", "a", "i", "n">> ELSE words[Len(words)]
        parts     == SplitWhitespace(trimmed)
        targets   == SelectSeq(Tail(parts), LAMBDA p : ~StartsWith(p, <<"-">>))
    IN IF \/ StartsWith(trimmed, GitPushStr)
          \/ Contains(trimmed, <<"&", "&", " ">> \o GitPushStr)
          \/ Contains(trimmed, <<";", " ">> \o GitPushStr)
       THEN << [action |-> "git_push", context |-> NewContext(branch)],
               [action |-> "run_cmd", context |-> cmd_ctx] >>
       ELSE IF \/ StartsWith(trimmed, <<"r", "m", " ">>)
               \/ StartsWith(trimmed, <<"r", "m", " ", "-">>)
       THEN << [action |-> "run_cmd", context |-> cmd_ctx] >>
            \o (IF targets # <<>>
                THEN << [action |-> "delete", context |-> NewContext(targets[1])] >>
                ELSE <<>>)
       ELSE << [action |-> "run_cmd", context |-> cmd_ctx] >>

\* map_tool_to_actions: the ordered queries of a tool call, or None.
MapToolToActions(input) ==
    LET ti == input.tool_input
    IN CASE input.tool_name = "Write" ->
              Some(<< [action |-> "write",
                       context |-> WithDiff(NewContext(GetStr(ti, "file_path", <<"unknown">>)),
                                            GetStr(ti, "content", <<>>))] >>)
         [] input.tool_name = "Edit" ->
              Some(<< [action |-> "write",
                       context |-> WithDiff(NewContext(GetStr(ti, "file_path", <<"unknown">>)),
                                            GetStr(ti, "new_string", <<>>))] >>)
         [] input.tool_name = "Bash" -> Some(MapBash(GetStr(ti, "command", <<>>)))
         [] input.tool_name \in {"WebFetch", "WebSearch"} ->
              Some(<< [action |-> "network",
                       context |-> WithDomain(
                           NewContext(GetStr(ti, "url", <<>>)),
                           UnwrapOr(HookExtractDomain(GetStr(ti, "url", <<>>)), <<>>))] >>)
         [] input.tool_name = "NotebookEdit" ->
              Some(<< [action |-> "write",
                       context |-> WithDiff(NewContext(GetStr(ti, "notebook_path", <<"unknown">>)),
                                            GetStr(ti, "new_source", <<>>))] >>)
         [] OTHER -> None

\* A log_decision that records only what blocks the tool call.
LogDecisionSkippingAllowed(journal, session_id, query, d, ok) ==
    IF ok /\ d.decision # "Allowed"
    THEN Append(journal,
                [session_id |-> session_id, agent |-> <<"claude-code">>,
                 action |-> query.action, target |-> query.context.target,
                 policy_rule |-> d.matched_rule, decision |-> d,
                 diff |-> query.context.diff, approved_by |-> None])
    ELSE journal

\* log_decision: the journal after the call; nothing is appended when the
\* journal cannot be opened or written.
LogDecision(journal, session_id, query, d, ok) ==
    IF ok
    THEN Append(journal,
                [session_id |-> session_id, agent |-> <<"claude-code">>,
                 action |-> query.action, target |-> query.context.target,
                 policy_rule |-> d.matched_rule, decision |-> d,
                 diff |-> query.context.diff, approved_by |-> None])
    ELSE journal

\* The tool calls the host agent hands to the hook.
HookInputs ==
    { [session_id |-> Some(<<"s1">>), tool_name |-> "Bash",
       tool_input |-> [command |-> GitPushStr \o <<" ", "m">>]],
      [session_id |-> None, tool_name |-> "Bash",
       tool_input |-> [command |-> <<"a", ";", " ">> \o GitPushStr]],
      [session_id |-> Some(<<"s1">>), tool_name |-> "Bash",
       tool_input |-> [command |-> <<"r", "m", " ", "-", "r", " ", "/", "s">>]],
      [session_id |-> Some(<<"s1">>), tool_name |-> "Bash",
       tool_input |-> [command |-> <<" ", "r", "m", " ", "/", "t", "/", "a">>]],
      [session_id |-> Some(<<"s1">>), tool_name |-> "Bash",
       tool_input |-> [command |-> <<"l", "s">>]],
      [session_id |-> Some(<<"s1">>), tool_name |-> "Write",
       tool_input |-> [file_path |-> <<"s", "/", "a">>, content |-> <<"1">>]],
      [session_id |-> Some(<<"s1">>), tool_name |-> "WebFetch",
       tool_input |-> [url |-> <<"h", ":", "/", "/", "g", ".", "c", "/", "x">>]],
      [session_id |-> Some(<<"s1">>), tool_name |-> "Read",
       tool_input |-> [file_path |-> <<"s", "/", "a">>]] }

\* The rules of the policy files the hook finds.
HookRules ==
    { RequireApproval("git_push", NoConditions, None),
      Deny("run_cmd", [NoConditions EXCEPT !.if_matches = <<GitPushStr \o <<"*">> >>], None),
      Deny("run_cmd", [NoConditions EXCEPT !.if_matches = << <<"r", "m", " ", "-", "r", "*">> >>],
           None),
      Allow("run_cmd", NoConditions),
      RequireApproval("run_cmd", NoConditions, Some(<<"ask">>)),
      Deny("delete", [NoConditions EXCEPT !.unless_path = <<PathTmp>>], None),
      Allow("write", [NoConditions EXCEPT !.if_path_matches = <<GlobSrc>>]) }

HookPolicies ==
    {[law |-> Law, rules |-> rs] : rs \in UNION {[1..n -> HookRules] : n \in 1..MaxRules}}

(***************************************************************************)
(* hook/main.rs: one run of the hook process.                              *)
(***************************************************************************)
\* What a run is given: whether standard input can be read, the tool call
\* on it (or text that is no tool call), and the policy file found from
\* the working directory: none, one that does not parse, one with a pattern
\* that does not compile, or a policy.
HookGoodRuns ==
    { [stdin_ok |-> TRUE, input |-> Some(i),
       policy_file |-> Some([parses |-> TRUE, compiles |-> TRUE, policy |-> p])] :
      i \in HookInputs, p \in HookPolicies }

HookFailingRuns ==
    LET i == CHOOSE x \in HookInputs : x.tool_input = [command |-> <<"l", "s">>]
        p == [law |-> Law, rules |-> <<RequireApproval("run_cmd", NoConditions, None)>>]
        good == [parses |-> TRUE, compiles |-> TRUE, policy |-> p]
    IN { [stdin_ok |-> FALSE, input |-> Some(i), policy_file |-> Some(good)],
         [stdin_ok |-> TRUE, input |-> None, policy_file |-> Some(good)],
         [stdin_ok |-> TRUE, input |-> Some(i), policy_file |-> None],
         [stdin_ok |-> TRUE, input |-> Some(i),
          policy_file |-> Some([good EXCEPT !.parses = FALSE])],
         [stdin_ok |-> TRUE, input |-> Some(i),
          policy_file |-> Some([good EXCEPT !.compiles = FALSE])] }

\* The exit of the process with a code.
HookExit(h, code) == [h EXCEPT !.pc = "exit", !.exit_code = Some(code)]

\* A hook that blocks the tool call when one of its own stages fails.
FailClosed(h) == HookExit(h, 2)

\* What main does when a stage before the loop fails: it exits with 0.
FailOpen(h) == HookExit(h, 0)

\* A loop that lets a Denied verdict pass.
HookReactIgnoringDenied(h, d, approve) ==
    CASE d.decision = "RequiresApproval" ->
           IF approve THEN [h EXCEPT !.user_approved = TRUE, !.i = h.i + 1]
           ELSE HookExit(h, 2)
      [] OTHER -> [h EXCEPT !.i = h.i + 1]

\* A loop without the latch: an approval only moves on to the next query.
HookReactWithoutLatch(h, d, approve) ==
    CASE d.decision = "Denied" -> HookExit(h, 2)
      [] d.decision = "RequiresApproval" ->
           IF approve THEN [h EXCEPT !.i = h.i + 1]
           ELSE HookExit(h, 2)
      [] OTHER -> [h EXCEPT !.i = h.i + 1]

\* The match on the decision in the loop of main (main.rs:130-152).
\* approve is the answer of prompt_native_approval.
HookReact(h, d, approve) ==
    CASE d.decision = "Denied" -> HookExit(h, 2)
      [] d.decision = "RequiresApproval" ->
           IF approve THEN [h EXCEPT !.user_approved = TRUE, !.i = h.i + 1]
           ELSE HookExit(h, 2)
      [] OTHER -> [h EXCEPT !.i = h.i + 1]

HookInit ==
    /\ EngineIdle
    /\ NoGateway
    /\ fs = <<>>
    /\ arg \in {Some(r) : r \in HookGoodRuns \cup HookFailingRuns}
    /\ returned = None
    /\ logger = <<>>
    /\ hook = [pc |-> "read", actions |-> <<>>, i |-> 0, user_approved |-> FALSE,
               journal |-> <<>>, verdicts |-> <<>>, exit_code |-> None]

HookUnchanged ==
    /\ UNCHANGED <<fs, arg, returned, logger>>
    /\ UNCHANGED engineVars
    /\ UNCHANGED gatewayVars

\* main.rs:42-48
ReadStdin ==
    /\ hook.pc = "read"
    /\ hook' = IF Unwrap(arg).stdin_ok THEN [hook EXCEPT !.pc = "parse"]
               ELSE FailOpen(hook)
    /\ UNCHANGED engine
    /\ HookUnchanged

\* main.rs:50-58
ParseInput ==
    /\ hook.pc = "parse"
    /\ hook' = IF Unwrap(arg).input # None THEN [hook EXCEPT !.pc = "find"]
               ELSE FailOpen(hook)
    /\ UNCHANGED engine
    /\ HookUnchanged

\* main.rs:60-73
FindPolicy ==
    /\ hook.pc = "find"
    /\ hook' = IF Unwrap(arg).policy_file # None THEN [hook EXCEPT !.pc = "policy"]
               ELSE HookExit(hook, 0)
    /\ UNCHANGED engine
    /\ HookUnchanged

\* main.rs:75-83
ParsePolicy ==
    /\ hook.pc = "policy"
    /\ hook' = IF Unwrap(Unwrap(arg).policy_file).parses
               THEN [hook EXCEPT !.pc = "engine"]
               ELSE FailOpen(hook)
    /\ UNCHANGED engine
    /\ HookUnchanged

\* main.rs:85-91
NewPolicyEngine ==
    /\ hook.pc = "engine"
    /\ IF Unwrap(Unwrap(arg).policy_file).compiles
       THEN /\ engine' = NewEngine(Unwrap(Unwrap(arg).policy_file).policy)
            /\ hook' = [hook EXCEPT !.pc = "map"]
       ELSE /\ engine' = engine
            /\ hook' = FailOpen(hook)
    /\ HookUnchanged

\* main.rs:93-114
MapTool ==
    /\ hook.pc = "map"
    /\ LET actions == MapToolToActions(Unwrap(Unwrap(arg).input))
       IN hook' = IF actions = None THEN HookExit(hook, 0)
                  ELSE [hook EXCEPT !.pc = "loop", !.actions = Unwrap(actions),
                                    !.i = 1]
    /\ UNCHANGED engine
    /\ HookUnchanged

\* main.rs:116-153, one iteration: evaluate, log, react.
HookStep(approve, log_ok) ==
    /\ hook.pc = "loop"
    /\ ~hook.user_approved
    /\ hook.i <= Len(hook.actions)
    /\ LET query == hook.actions[hook.i]
           d     == Evaluate(engine, query.action, query.context)
           session_id == UnwrapOr(Unwrap(Unwrap(arg).input).session_id,
                                  <<"claude-hook">>)
           logged == [hook EXCEPT
                         !.journal = LogDecision(hook.journal, session_id, query, d,
                                                 log_ok),
                         !.verdicts = Append(hook.verdicts,
                                             [index |-> hook.i, decision |-> d,
                                              approve |-> approve, log_ok |-> log_ok])]
       IN hook' = HookReact(logged, d, approve)
    /\ UNCHANGED engine
    /\ HookUnchanged

\* main.rs:119-121 and 155-156: the loop is left and the process exits 0.
HookDone ==
    /\ hook.pc = "loop"
    /\ hook.user_approved \/ hook.i > Len(hook.actions)
    /\ hook' = HookExit(hook, 0)
    /\ UNCHANGED engine
    /\ HookUnchanged

HookNext ==
    \/ ReadStdin
    \/ ParseInput
    \/ FindPolicy
    \/ ParsePolicy
    \/ NewPolicyEngine
    \/ MapTool
    \/ \E approve \in BOOLEAN, log_ok \in BOOLEAN : HookStep(approve, log_ok)
    \/ HookDone

HookSpec == HookInit /\ [][HookNext]_vars

(***************************************************************************)
(* Properties of the hook (C12..C15).                                      *)
(***************************************************************************)
\* The verdict of the engine on the k-th query of the tool call.
HookQueryDecision(k) ==
    Evaluate(engine, hook.actions[k].action, hook.actions[k].context).decision

\* The run got through every stage before the loop and has ended.
HookEndedAfterMapping == hook.pc = "exit" /\ hook.i >= 1

Refused(v) == v.decision.decision = "RequiresApproval" /\ ~v.approve

Approved(v) == v.decision.decision = "RequiresApproval" /\ v.approve

\* C12 as stated: the hook evaluates every query of the list, exits 2 if
\* at least one query of the list is Denied by the engine or needs an
\* approval that is not given, and exits 0 only if all queries are allowed.
HookExitCodeOverAllQueries ==
    HookEndedAfterMapping =>
        LET n == Len(hook.actions)
            denied  == \E k \in 1..n : HookQueryDecision(k) = "Denied"
            refused == \E j \in 1..Len(hook.verdicts) : Refused(hook.verdicts[j])
        IN /\ (denied \/ refused) => hook.exit_code = Some(2)
           /\ hook.exit_code = Some(0) =>
                  \A k \in 1..n : HookQueryDecision(k) \in {"Allowed", "RequiresApproval"}

\* C12 (amended): the queries are evaluated in order up to the first one
\* that is Denied, refused by the human or approved by the human; the hook
\* exits 2 exactly when that query is Denied or refused, and exits 0
\* exactly when every query of the list was Allowed or one was approved
\* (the queries after an approved one are not evaluated).
HookExitCode ==
    HookEndedAfterMapping =>
        LET vs == hook.verdicts
            m  == Len(vs)
        IN /\ m <= Len(hook.actions)
           /\ \A j \in 1..m : /\ vs[j].index = j
                              /\ vs[j].decision.decision = HookQueryDecision(j)
           /\ \A j \in 1..(m - 1) : vs[j].decision.decision = "Allowed"
           /\ hook.exit_code = Some(2) <=>
                  /\ m >= 1
                  /\ vs[m].decision.decision = "Denied" \/ Refused(vs[m])
           /\ hook.exit_code = Some(0) <=>
                  \/ /\ m = Len(hook.actions)
                     /\ \A j \in 1..m : vs[j].decision.decision = "Allowed"
                  \/ m >= 1 /\ Approved(vs[m])

\* An approved first query, a second query the policy denies, exit 0.
HookExitCodeWitness ==
    /\ HookEndedAfterMapping
    /\ hook.exit_code = Some(0)
    /\ hook.user_approved
    /\ \E k \in 1..Len(hook.actions) : HookQueryDecision(k) = "Denied"

\* A stage before the loop fails in this run.
HookStageFails ==
    LET run == Unwrap(arg)
    IN \/ ~run.stdin_ok
       \/ run.input = None
       \/ run.policy_file = None
       \/ ~Unwrap(run.policy_file).parses
       \/ ~Unwrap(run.policy_file).compiles

\* C13: a run in which reading the input, parsing it, locating the policy,
\* parsing the policy or building the engine fails ends with exit code 0;
\* exit code 2 is only ever the result of a verdict: the last verdict is
\* Denied, or RequiresApproval that was not approved.
HookFailOpen ==
    hook.pc = "exit" =>
        /\ HookStageFails => hook.exit_code = Some(0) /\ hook.verdicts = <<>>
        /\ hook.exit_code = Some(2) =>
               /\ hook.verdicts # <<>>
               /\ LET v == hook.verdicts[Len(hook.verdicts)]
                  IN v.decision.decision = "Denied" \/ Refused(v)

\* The policy has a pattern that does not compile and the run ended with 0.
HookFailOpenWitness ==
    /\ hook.pc = "exit"
    /\ Unwrap(arg).policy_file # None
    /\ ~Unwrap(Unwrap(arg).policy_file).compiles
    /\ hook.exit_code = Some(0)

\* The command of a Bash tool call, trimmed.
HookBashCommand == Trim(GetStr(Unwrap(Unwrap(arg).input).tool_input, "command", <<>>))

HookIsGitPush ==
    \/ StartsWith(HookBashCommand, GitPushStr)
    \/ Contains(HookBashCommand, <<"&", "&", " ">> \o GitPushStr)
    \/ Contains(HookBashCommand, <<";", " ">> \o GitPushStr)

\* C14: a RequiresApproval verdict the human approves sets the latch and is
\* the last verdict of the run, which can only end with exit code 0; one
\* the human declines ends the run with exit code 2 in the same step. The
\* queries of a git push command are GitPush then RunCmd, those of an rm
\* command RunCmd then, if it names a target, Delete.
HookApprovalLatch ==
    /\ \A j \in 1..Len(hook.verdicts) :
           LET v == hook.verdicts[j]
           IN /\ Approved(v) =>
                    /\ j = Len(hook.verdicts)
                    /\ hook.user_approved
                    /\ hook.i = j + 1
                    /\ hook.pc = "exit" => hook.exit_code = Some(0)
              /\ Refused(v) =>
                    /\ j = Len(hook.verdicts)
                    /\ hook.pc = "exit"
                    /\ hook.exit_code = Some(2)
    /\ hook.user_approved =>
           \E j \in 1..Len(hook.verdicts) : Approved(hook.verdicts[j])
    /\ (hook.i >= 1 /\ Unwrap(Unwrap(arg).input).tool_name = "Bash") =>
           LET names == [k \in 1..Len(hook.actions) |-> hook.actions[k].action]
           IN /\ HookIsGitPush => names = <<"git_push", "run_cmd">>
              /\ (~HookIsGitPush /\ StartsWith(HookBashCommand, <<"r", "m", " ">>)) =>
                     names \in {<<"run_cmd">>, <<"run_cmd", "delete">>}

\* The first of two queries was approved and the second never evaluated.
HookApprovalLatchWitness ==
    /\ hook.pc = "exit"
    /\ hook.exit_code = Some(0)
    /\ Len(hook.actions) = 2
    /\ Len(hook.verdicts) = 1
    /\ Approved(hook.verdicts[1])

\* C15: when the process has exited, every verdict the engine produced in
\* the run is in the journal, in the order produced, whatever the exit code.
HookAuditsEveryVerdict ==
    hook.pc = "exit" =>
        /\ Len(hook.journal) = Len(hook.verdicts)
        /\ \A j \in 1..Len(hook.verdicts) :
               j <= Len(hook.journal) =>
                   /\ hook.journal[j].decision = hook.verdicts[j].decision
                   /\ hook.journal[j].action = hook.actions[j].action

(***************************************************************************)
(* policy/parser.rs and the serde forms of policy/types.rs.                *)
(* A YAML document is the value serde_yaml reads or writes: a mapping is a *)
(* function on its keys, a scalar string a sequence of characters, a       *)
(* sequence a sequence; a value read as StringOrVec carries which of the   *)
(* two it is.                                                              *)
(***************************************************************************)
\* The value of a key of a mapping read into an Option field with
\* #[serde(default)].
Get(m, key) == IF key \in DOMAIN m THEN Some(m[key]) ELSE None

Single(s) == [single |-> s]

Multiple(v) == [multiple |-> v]

\* StringOrVec::into_vec
IntoVec(v) == IF "single" \in DOMAIN v THEN <<v.single>> ELSE v.multiple

UpperCase ==
    <<"A", "B", "C", "D", "E", "F", "G", "H", "I", "J", "K", "L", "M", "N", "O", "P", "Q", "R", "S", "T", "U", "V", "W", "X", "Y", "Z">>

LowerCase ==
    <<"a", "b", "c", "d", "e", "f", "g", "h", "i", "j", "k", "l", "m", "n", "o", "p", "q", "r", "s", "t", "u", "v", "w", "x", "y", "z">>

\* str::to_lowercase
ToLowercase(s) ==
    [i \in 1..Len(s) |->
        IF \E k \in 1..Len(UpperCase) : UpperCase[k] = s[i]
        THEN LowerCase[CHOOSE k \in 1..Len(UpperCase) : UpperCase[k] = s[i]]
        ELSE s[i]]

\* Action::from_str_loose
FromStrLoose(s) ==
    LET t == Trim(ToLowercase(s))
    IN CASE t \in {<<"w", "r", "i", "t", "e">>,
                   <<"w", "r", "i", "t", "e", "_", "f", "i", "l", "e">>,
                   <<"f", "i", "l", "e", "_", "w", "r", "i", "t", "e">>} -> Some("write")
         [] t \in {<<"d", "e", "l", "e", "t", "e">>,
                   <<"d", "e", "l", "e", "t", "e", "_", "f", "i", "l", "e">>,
                   <<"f", "i", "l", "e", "_", "d", "e", "l", "e", "t", "e">>,
                   <<"r", "m">>} -> Some("delete")
         [] t \in {<<"r", "u", "n", "_", "c", "m", "d">>,
                   <<"s", "h", "e", "l", "l">>,
                   <<"e", "x", "e", "c">>,
                   <<"c", "o", "m", "m", "a", "n", "d">>,
                   <<"c", "m", "d">>} -> Some("run_cmd")
         [] t \in {<<"g", "i", "t", "_", "p", "u", "s", "h">>,
                   <<"p", "u", "s", "h">>,
                   <<"g", "i", "t">>} -> Some("git_push")
         [] t \in {<<"n", "e", "t", "w", "o", "r", "k">>,
                   <<"n", "e", "t">>,
                   <<"h", "t", "t", "p">>,
                   <<"f", "e", "t", "c", "h">>} -> Some("network")
         [] OTHER -> None

\* The name serde writes for an Action (rename_all = "snake_case").
ActionName(act) ==
    CASE act = "write" -> <<"w", "r", "i", "t", "e">>
      [] act = "delete" -> <<"d", "e", "l", "e", "t", "e">>
      [] act = "run_cmd" -> <<"r", "u", "n", "_", "c", "m", "d">>
      [] act = "git_push" -> <<"g", "i", "t", "_", "p", "u", "s", "h">>
      [] act = "network" -> <<"n", "e", "t", "w", "o", "r", "k">>

\* globset::Glob::new on a pattern: of the errors it reports, a character
\* class that is opened and never closed.
GlobNewOk(pattern) ==
    \A i \in 1..Len(pattern) :
        pattern[i] = "[" => \E j \in (i + 1)..Len(pattern) : pattern[j] = "]"

ParseOk(v) == [ok |-> TRUE, value |-> v]

ParseErr(e) == [ok |-> FALSE, error |-> e]

\* validate_conditions_for_action
ValidateConditionsForAction(act, conditions) ==
    IF /\ act \in {"run_cmd", "network"}
       /\ conditions.if_path_matches # <<>> \/ conditions.unless_path # <<>>
    THEN ParseErr("if_path_matches and unless_path don't apply")
    ELSE IF act = "git_push" /\ conditions.if_matches # <<>>
    THEN ParseErr("if_matches doesn't apply to git_push")
    ELSE IF act \in {"write", "delete"} /\ conditions.unless_domain # <<>>
    THEN ParseErr("unless_domain only applies to network actions")
    ELSE IF \E i \in 1..Len(conditions.if_path_matches) :
                ~GlobNewOk(conditions.if_path_matches[i])
    THEN ParseErr("invalid glob pattern")
    ELSE IF \E i \in 1..Len(conditions.unless_path) :
                LET p == conditions.unless_path[i]
                IN /\ \E k \in 1..Len(p) : p[k] \in {"*", "?", "["}
                   /\ ~GlobNewOk(p)
    THEN ParseErr("invalid glob pattern")
    ELSE ParseOk(<<>>)

\* convert_rule
ConvertRule(raw) ==
    LET deny             == Get(raw, "deny")
        allow            == Get(raw, "allow")
        require_approval == Get(raw, "require_approval")
        set_count == Cardinality({k \in {"deny", "allow", "require_approval"} :
                                     k \in DOMAIN raw})
        list(key) == IF key \in DOMAIN raw THEN IntoVec(raw[key]) ELSE <<>>
        conditions ==
            [if_path_matches |-> list("if_path_matches"),
             unless_path     |-> list("unless_path"),
             if_matches      |-> list("if_matches"),
             max_diff_lines  |-> Get(raw, "max_diff_lines"),
             unless_domain   |-> list("unless_domain")]
        action_str == IF deny # None THEN Unwrap(deny)
                      ELSE IF allow # None THEN Unwrap(allow)
                      ELSE Unwrap(require_approval)
        act == FromStrLoose(action_str)
    IN IF set_count = 0 THEN ParseErr("must specify one of: deny, allow, or require_approval")
       ELSE IF set_count > 1 THEN ParseErr("specifies multiple rule types")
       ELSE IF act = None THEN ParseErr("Unknown action")
       ELSE IF ~ValidateConditionsForAction(Unwrap(act), conditions).ok
       THEN ValidateConditionsForAction(Unwrap(act), conditions)
       ELSE IF deny # None
       THEN ParseOk(Deny(Unwrap(act), conditions, Get(raw, "reason")))
       ELSE IF allow # None
       THEN ParseOk(Allow(Unwrap(act), conditions))
       ELSE ParseOk(RequireApproval(Unwrap(act), conditions, Get(raw, "prompt")))

\* A parse_policy_str that takes a document without rules.
ParsePolicyStrAcceptingEmpty(yaml) ==
    IF ~({"law", "rules"} \subseteq DOMAIN yaml)
    THEN ParseErr("Invalid YAML syntax in policy file")
    ELSE IF Trim(yaml.law) = <<>>
    THEN ParseErr("Policy must have a non-empty 'law' name")
    ELSE LET converted == [i \in 1..Len(yaml.rules) |-> ConvertRule(yaml.rules[i])]
         IN IF \E i \in 1..Len(converted) : ~converted[i].ok
            THEN ParseErr("Invalid rule")
            ELSE ParseOk([law |-> yaml.law,
                          description |-> Get(yaml, "description"),
                          rules |-> [i \in 1..Len(converted) |-> converted[i].value]])

\* parse_policy_str: serde_yaml reads the document into RawPolicy (law and
\* rules are required, keys RawPolicy and RawRule do not name are skipped),
\* then the law name is validated and the rules converted in order.
ParsePolicyStr(yaml) ==
    IF ~({"law", "rules"} \subseteq DOMAIN yaml)
    THEN ParseErr("Invalid YAML syntax in policy file")
    ELSE IF Trim(yaml.law) = <<>>
    THEN ParseErr("Policy must have a non-empty 'law' name")
    ELSE LET converted == [i \in 1..Len(yaml.rules) |-> ConvertRule(yaml.rules[i])]
         IN IF \E i \in 1..Len(converted) : ~converted[i].ok
            THEN ParseErr("Invalid rule")
            ELSE IF converted = <<>>
            THEN ParseErr("Policy must have at least one rule")
            ELSE ParseOk([law |-> yaml.law,
                          description |-> Get(yaml, "description"),
                          rules |-> [i \in 1..Len(converted) |-> converted[i].value]])

\* What #[derive(Serialize)] writes for Conditions: the empty lists and the
\* absent max_diff_lines are skipped.
SerializeConditions(c) ==
    LET keys == {k \in {"if_path_matches", "unless_path", "if_matches", "unless_domain"} :
                    c[k] # <<>>}
                \cup (IF c.max_diff_lines # None THEN {"max_diff_lines"} ELSE {})
    IN [k \in keys |-> IF k = "max_diff_lines" THEN Unwrap(c.max_diff_lines)
                       ELSE Multiple(c[k])]

\* What #[derive(Serialize)] with #[serde(tag = "type")] writes for a Rule:
\* a mapping with the variant's name under "type" and the variant's fields.
SerializeRule(rule) ==
    LET type_name == CASE rule.type = "Deny" -> <<"D", "e", "n", "y">>
                       [] rule.type = "Allow" -> <<"A", "l", "l", "o", "w">>
                       [] rule.type = "RequireApproval" ->
                            <<"R", "e", "q", "u", "i", "r", "e", "A", "p", "p", "r", "o", "v", "a", "l">>
        base == [type |-> type_name, action |-> ActionName(rule.action),
                 conditions |-> SerializeConditions(rule.conditions)]
    IN IF rule.type = "Deny" /\ rule.reason # None
       THEN [reason |-> Unwrap(rule.reason)] @@ base
       ELSE IF rule.type = "RequireApproval" /\ rule.prompt # None
       THEN [prompt |-> Unwrap(rule.prompt)] @@ base
       ELSE base

\* What #[derive(Serialize)] writes for a Policy.
SerializePolicy(policy) ==
    LET base == [law |-> policy.law,
                 rules |-> [i \in 1..Len(policy.rules) |-> SerializeRule(policy.rules[i])]]
    IN IF policy.description # None
       THEN [description |-> Unwrap(policy.description)] @@ base
       ELSE base

(***************************************************************************)
(* A policy document is parsed, the Policy serialised and the text parsed  *)
(* again; an engine is built from the parsed Policy.                       *)
(***************************************************************************)
\* The rule mappings of the documents: one of each rule type with its
\* conditions, an alias, and one for each way convert_rule fails.
RawRules ==
    { [deny |-> <<"d", "e", "l", "e", "t", "e">>, unless_path |-> Single(PathTmp)],
      [deny |-> <<"w", "r", "i", "t", "e">>, if_path_matches |-> Multiple(<<GlobEnv>>),
       reason |-> <<"r">>],
      [require_approval |-> <<"P", "u", "s", "h">>, prompt |-> <<"a", "s", "k">>],
      [allow |-> <<"w", "r", "i", "t", "e">>, if_path_matches |-> Multiple(<<GlobSrc>>),
       max_diff_lines |-> 1],
      [allow |-> <<"s", "h", "e", "l", "l">>, if_matches |-> Single(CmdGlobRm)],
      [allow |-> <<"n", "e", "t", "w", "o", "r", "k">>, unless_domain |-> Multiple(<<DomainGit>>)],
      [deny |-> <<"h", "a", "c", "k">>],
      [deny |-> <<"d", "e", "l", "e", "t", "e">>, allow |-> <<"w", "r", "i", "t", "e">>],
      [deny |-> <<"r", "u", "n", "_", "c", "m", "d">>, if_path_matches |-> Single(GlobSrc)],
      [deny |-> <<"g", "i", "t", "_", "p", "u", "s", "h">>, if_matches |-> Single(CmdGlobRm)],
      [deny |-> <<"d", "e", "l", "e", "t", "e">>, unless_domain |-> Single(DomainGit)],
      [deny |-> <<"w", "r", "i", "t", "e">>, if_path_matches |-> Single(<<"[">>)],
      [deny |-> <<"d", "e", "l", "e", "t", "e">>, unless_path |-> Single(<<"[", "t">>)],
      [reason |-> <<"r">>] }

RawRuleLists == UNION {[1..n -> RawRules] : n \in 0..MaxRules}

\* The documents handed to parse_policy_str.
Documents ==
    { [law |-> l, rules |-> rs] : l \in {<<"t">>, <<" ">>}, rs \in RawRuleLists }
    \cup { [law |-> <<"t">>, description |-> <<"d">>, rules |-> rs] : rs \in RawRuleLists }
    \cup { [law |-> <<"t">>], [rules |-> <<>>] }

ParserInit ==
    /\ EngineIdle
    /\ NoGateway
    /\ fs = <<>>
    /\ hook = <<>>
    /\ logger = <<>>
    /\ arg \in {Some(yaml) : yaml \in Documents}
    /\ returned = None

ParserUnchanged ==
    /\ UNCHANGED <<fs, arg, hook, logger>>
    /\ UNCHANGED engineVars
    /\ UNCHANGED gatewayVars

\* parse_policy_file: the document is read and parsed.
ParsePolicyFile ==
    /\ returned = None
    /\ returned' = Some([parsed |-> ParsePolicyStr(Unwrap(arg)),
                         serialized |-> None, reparsed |-> None])
    /\ UNCHANGED engine
    /\ ParserUnchanged

\* The parsed Policy is serialised.
SerializeParsed ==
    /\ returned # None
    /\ Unwrap(returned).parsed.ok
    /\ Unwrap(returned).serialized = None
    /\ returned' = Some([Unwrap(returned) EXCEPT
                            !.serialized = Some(SerializePolicy(Unwrap(returned).parsed.value))])
    /\ UNCHANGED engine
    /\ ParserUnchanged

\* The serialised text is parsed.
ParseSerialized ==
    /\ returned # None
    /\ Unwrap(returned).serialized # None
    /\ Unwrap(returned).reparsed = None
    /\ returned' = Some([Unwrap(returned) EXCEPT
                            !.reparsed = Some(ParsePolicyStr(Unwrap(Unwrap(returned).serialized)))])
    /\ UNCHANGED engine
    /\ ParserUnchanged

\* PolicyEngine::new on the parsed Policy.
EngineFromParsed ==
    /\ returned # None
    /\ Unwrap(returned).parsed.ok
    /\ engine = <<>>
    /\ engine' = NewEngine(Unwrap(returned).parsed.value)
    /\ UNCHANGED returned
    /\ ParserUnchanged

ParserNext ==
    \/ ParsePolicyFile
    \/ SerializeParsed
    \/ ParseSerialized
    \/ EngineFromParsed

ParserSpec == ParserInit /\ [][ParserNext]_vars

(***************************************************************************)
(* Properties of the parser (C16, C17).                                    *)
(***************************************************************************)
\* C16: parse_policy_str fails for every document whose rule list is
\* empty; a Policy it returns, and an engine built from one, has at least
\* one rule.
EmptyPolicyRejected ==
    returned # None =>
        LET yaml == Unwrap(arg)
            r    == Unwrap(returned).parsed
        IN /\ ("rules" \in DOMAIN yaml /\ yaml.rules = <<>>) => ~r.ok
           /\ r.ok => Len(r.value.rules) >= 1
           /\ engine # <<>> => /\ Len(engine.policy.rules) >= 1
                               /\ Len(engine.compiled_rules) >= 1

\* A document with a law name and an empty rule list was parsed and refused.
EmptyPolicyRejectedWitness ==
    /\ returned # None
    /\ DOMAIN Unwrap(arg) = {"law", "rules"}
    /\ Unwrap(arg).law = <<"t">>
    /\ Unwrap(arg).rules = <<>>
    /\ ~Unwrap(returned).parsed.ok

\* C17: after a document was parsed, the Policy serialised and the text
\* parsed again, the second parse succeeded and returned the same Policy:
\* same law, description and rules in the same order.
RoundTrip ==
    (returned # None /\ Unwrap(returned).reparsed # None) =>
        LET first  == Unwrap(returned).parsed
            second == Unwrap(Unwrap(returned).reparsed)
        IN /\ second.ok
           /\ second.value = first.value

(***************************************************************************)
(* audit/reader.rs: the summary of a session.                              *)
(***************************************************************************)
\* The counter of the summary a record adds to (the match of summarize).
SummaryCounter(entry) ==
    CASE entry.decision.decision = "Allowed" -> "allowed"
      [] entry.decision.decision = "Denied" -> "denied"
      [] OTHER -> IF entry.approved_by # None THEN "approved" ELSE "denied"

\* AuditReader::summarize, without the times of the first and last record.
Summarize(entries) ==
    LET count(name) == Cardinality({i \in 1..Len(entries) :
                                       SummaryCounter(entries[i]) = name})
    IN [session_id |-> IF entries # <<>> THEN entries[1].session_id ELSE <<>>,
        agent |-> IF entries # <<>> THEN entries[1].agent ELSE <<>>,
        total_actions |-> Len(entries),
        allowed |-> count("allowed"),
        denied |-> count("denied"),
        approved |-> count("approved")]

(***************************************************************************)
(* Properties of approved requests and of the summary (C18..C20).          *)
(***************************************************************************)
\* The broker answered and did not approve.
BrokerRefused(id) ==
    /\ hist[id].broker # None
    /\ Unwrap(hist[id].broker).ok
    /\ ~Unwrap(hist[id].broker).approved

\* C18: in the summary of the records the gateway wrote, the requests the
\* broker approved are the ones counted as approved, and the record of a
\* request the broker refused is counted as denied.
SummaryCountsApprovals ==
    LET summary == Summarize(audit)
        approved_lines == {i \in 1..Len(audit) : BrokerApproved(audit[i].request_id)}
    IN /\ summary.approved = Cardinality(approved_lines)
       /\ \A i \in approved_lines : SummaryCounter(audit[i]) = "approved"
       /\ \A i \in 1..Len(audit) :
              BrokerRefused(audit[i].request_id) => SummaryCounter(audit[i]) = "denied"

\* C19: for a request the broker approved, the handler was invoked, and a
\* record written for it has decision Allowed with matched_rule "approved
\* by human" and approved_by the identity the broker returned, "terminal"
\* if it returned none.
ApprovedIsAuditedAsAllowed ==
    \A id \in Requests :
        BrokerApproved(id) =>
            /\ hist[id].handler # None
            /\ \A i \in RecordsOf(id) :
                   /\ audit[i].decision = Allowed(Some(<<"approved by human">>))
                   /\ audit[i].policy_rule = Some(<<"approved by human">>)
                   /\ audit[i].approved_by =
                          Some(UnwrapOr(Unwrap(hist[id].broker).approved_by,
                                        <<"terminal">>))

\* C20: while the task of one connection waits in request_approval, the
\* task of every other connection can take its next step: read and evaluate
\* a request, write its audit record, write its response.
SuspendedDoesNotBlock ==
    \A c \in Conns :
        task[c].pc = "approval" =>
            \A b \in Conns \ {c} :
                /\ (task[b].pc = "read" /\ Cardinality(DOMAIN hist) < MaxLines) =>
                       \A line \in ClientLines, result \in HandlerResults :
                           ENABLED ReadRequest(b, line, result)
                /\ task[b].pc = "log" => ENABLED WriteAudit(b, TRUE)
                /\ task[b].pc = "respond" => ENABLED WriteResponse(b)

\* One request waits for the broker, and a request that arrived after it
\* on another connection has its audit record and its response.
SuspendedDoesNotBlockWitness ==
    \E c \in Conns, id \in Concluded :
        /\ task[c].pc = "approval"
        /\ hist[id].conn # c
        /\ hist[Unwrap(task[c].request).request_id].arrival < hist[id].arrival
        /\ RecordsOf(Unwrap(task[c].request).request_id) = {}

(***************************************************************************)
(* utils/paths.rs examined alone: normalize_path on a target, and on its   *)
(* own result.                                                             *)
(***************************************************************************)
\* The longest target given to normalize_path.
MaxTargetLen == 4

\* The characters of the targets: a name character, the dot, the separator.
TargetChars == {"a", ".", "/"}

Targets == UNION {[1..n -> TargetChars] : n \in 0..MaxTargetLen}

\* Nothing but the call examined is running.
CallAlone ==
    /\ EngineIdle
    /\ NoGateway
    /\ fs = <<>>
    /\ hook = <<>>
    /\ logger = <<>>

CallUnchanged ==
    /\ UNCHANGED <<engine, fs, arg, hook, logger>>
    /\ UNCHANGED engineVars
    /\ UNCHANGED gatewayVars

NormalizeInit ==
    /\ CallAlone
    /\ arg \in {Some(target) : target \in Targets}
    /\ returned = None

\* PolicyEngine::evaluate normalises the target of the query (engine.rs:114).
NormalizeTarget ==
    /\ returned = None
    /\ returned' = Some([once |-> NormalizePath(Unwrap(arg)), twice |-> None])
    /\ CallUnchanged

\* The normalised target is given to normalize_path again.
NormalizeAgain ==
    /\ returned # None
    /\ Unwrap(returned).twice = None
    /\ returned' = Some([Unwrap(returned) EXCEPT
                            !.twice = Some(NormalizePath(Unwrap(returned).once))])
    /\ CallUnchanged

NormalizeNext == NormalizeTarget \/ NormalizeAgain

NormalizeSpec == NormalizeInit /\ [][NormalizeNext]_vars

(***************************************************************************)
(* Properties of normalize_path (C21, C24).                                *)
(***************************************************************************)
\* C21: the normalised target, cut at its separators, has no component
\* that is `..`.
NoParentComponent ==
    returned # None =>
        LET components == Split(Unwrap(returned).once, "/")
        IN \A k \in 1..Len(components) : components[k] # <<".", ".">>

\* C24: the normalised target does not start with `./` and contains no
\* `//`, and normalising it again returns it unchanged.
NormalizeIsCanonical ==
    returned # None =>
        LET once == Unwrap(returned).once
        IN /\ ~StartsWith(once, <<".", "/">>)
           /\ Find(once, <<"/", "/">>) = -1
           /\ Unwrap(returned).twice # None => Unwrap(Unwrap(returned).twice) = once

(***************************************************************************)
(* Properties of check_conditions (C22, C25) and of the exception arm of   *)
(* evaluate (C26).                                                         *)
(***************************************************************************)
\* C22: for a rule of the query action with a literal unless_path entry
\* (no `*`, `?`, `[`), the condition check gives ExceptionMatched for every
\* target that has the entry as a string prefix.
LiteralUnlessIsPrefix ==
    \A i \in 1..NumRules :
        \A k \in 1..Len(TheRule(i).conditions.unless_path) :
            LET entry == TheRule(i).conditions.unless_path[k]
            IN (/\ pc = "return"
                /\ TheRule(i).action = action
                /\ ~IsGlob(entry)
                /\ StartsWith(NormalizePath(context.target), entry)) =>
                   Outcome(i) = "ExceptionMatched"

\* The rules check_conditions is examined on: those of the catalogue, and
\* rules whose exception lies outside their if_path_matches patterns or
\* that join several conditions.
ConditionRules ==
    RuleCatalogue \cup
    { Deny("write", [NoConditions EXCEPT !.if_path_matches = <<GlobEnv>>,
                                         !.unless_path = <<PathSecret>>], None),
      Allow("write", [NoConditions EXCEPT !.if_path_matches = <<GlobEnv>>,
                                          !.unless_path = <<GlobSrc>>,
                                          !.max_diff_lines = Some(1)]),
      RequireApproval("delete", [NoConditions EXCEPT !.if_path_matches = <<GlobSrc>>,
                                                     !.unless_path = <<PathTmp>>], None),
      Allow("run_cmd", [NoConditions EXCEPT !.if_matches = <<CmdGlobRm, <<"l", "s">> >>,
                                            !.max_diff_lines = Some(1)]),
      Deny("git_push", [NoConditions EXCEPT !.if_path_matches = <<GlobSrc>>,
                                            !.unless_path = <<PathTmp>>,
                                            !.unless_domain = <<DomainGit>>], None) }

ConditionQueries ==
    Queries \cup
    { [action |-> "delete", context |-> NewContext(<<"s", "/", "a">>)],
      [action |-> "git_push", context |-> NewContext(PathTmp)],
      [action |-> "git_push", context |-> NewContext(<<"s", "/", "m">>)],
      [action |-> "git_push", context |-> WithDomain(NewContext(<<"m">>), DomainGit)],
      [action |-> "run_cmd",
       context |-> WithDiff(WithCommand(NewContext(<<"s", "h">>), <<"l", "s">>),
                            <<"1", "\n", "2">>)] }

\* evaluate has reached a rule of the query's action and calls
\* check_conditions on it (engine.rs:119-125).
ConditionsInit ==
    /\ NoGateway
    /\ fs = <<>>
    /\ arg = None
    /\ hook = <<>>
    /\ logger = <<>>
    /\ \E rule \in ConditionRules, q \in ConditionQueries :
          /\ rule.action = q.action
          /\ engine = NewEngine([law |-> Law, rules |-> <<rule>>])
          /\ action = q.action
          /\ context = q.context
    /\ pc = "check"
    /\ normalized_target = <<>>
    /\ idx = 1
    /\ decision = None
    /\ returned = None

\* engine.rs:114
ConditionsEnter ==
    /\ pc = "check"
    /\ normalized_target' = NormalizePath(context.target)
    /\ pc' = "checking"
    /\ UNCHANGED <<engine, action, context, idx, decision>>
    /\ UNCHANGED gatewayVars
    /\ UNCHANGED callVars

\* engine.rs:125, the call of check_conditions
ConditionsCheck ==
    /\ pc = "checking"
    /\ returned' = Some(CheckConditions(engine.compiled_rules[idx], action,
                                        normalized_target, context))
    /\ pc' = "checked"
    /\ UNCHANGED <<engine, action, context, normalized_target, idx, decision>>
    /\ UNCHANGED gatewayVars
    /\ UNCHANGED <<fs, arg, hook, logger>>

ConditionsNext == ConditionsEnter \/ ConditionsCheck

ConditionsSpec == ConditionsInit /\ [][ConditionsNext]_vars

\* C25: check_conditions gives Matched for an empty condition set;
\* otherwise ExceptionMatched when the target matches an unless_path entry
\* or the domain an unless_domain entry, whatever if_path_matches says;
\* otherwise NotMatched when if_path_matches fails, when the command of a
\* RunCmd query is missing or matches no pattern, or when the diff is longer
\* than max_diff_lines; and Matched in every other case.
ConditionOrder ==
    pc = "checked" =>
        returned = Some(IF ConditionsIsEmpty(TheRule(1).conditions) THEN "Matched"
                        ELSE IF ExceptionHit(TheRule(1)) THEN "ExceptionMatched"
                        ELSE IF OtherConditionsHold(TheRule(1)) THEN "Matched"
                        ELSE "NotMatched")

\* The target matches an exception of the rule and none of its
\* if_path_matches patterns, and the check gave ExceptionMatched.
ConditionOrderWitness ==
    /\ pc = "checked"
    /\ returned = Some("ExceptionMatched")
    /\ TheRule(1).conditions.if_path_matches # <<>>
    /\ ~MatcherMatches(TheRule(1).conditions.if_path_matches, normalized_target)

\* The engine without its rule i.
EngineWithout(i) ==
    NewEngine([law |-> engine.policy.law,
               rules |-> SubSeq(engine.policy.rules, 1, i - 1)
                         \o SubSeq(engine.policy.rules, i + 1, NumRules)])

MaxCmdLen == 3

CommandChars == {"a", "b", " "}

Commands == UNION {[1..n -> CommandChars] : n \in 0..MaxCmdLen}

CommandPatterns == UNION {[1..n -> CommandChars \cup {"*"}] : n \in 0..MaxCmdLen}

\* The pattern lists: every single pattern, and the pairs of short ones.
PatternLists ==
    {<<p>> : p \in CommandPatterns}
    \cup {<<p, q>> : p, q \in {r \in CommandPatterns : Len(r) = 1}}

CommandInit ==
    /\ CallAlone
    /\ arg \in {Some([command |-> c, patterns |-> ps]) :
                   c \in Commands, ps \in PatternLists}
    /\ returned = None

\* check_conditions calls command_matches (engine.rs:203-212).
CallCommandMatches ==
    /\ returned = None
    /\ returned' = Some(CommandMatches(Unwrap(arg).command, Unwrap(arg).patterns))
    /\ CallUnchanged

CommandNext == CallCommandMatches

CommandSpec == CommandInit /\ [][CommandNext]_vars

\* The text can be obtained from the pattern by replacing each `*` with a
\* string: the fixed characters are matched one after the other.
RECURSIVE WildcardMatch(_, _)
WildcardMatch(pattern, text) ==
    IF pattern = <<>> THEN text = <<>>
    ELSE IF Head(pattern) = "*"
         THEN \/ WildcardMatch(Tail(pattern), text)
              \/ text # <<>> /\ WildcardMatch(pattern, Tail(text))
    ELSE /\ text # <<>>
         /\ Head(text) = Head(pattern)
         /\ WildcardMatch(Tail(pattern), Tail(text))

\* C23: command_matches returns true exactly when, for some pattern, the
\* trimmed command is the trimmed pattern with each `*` replaced by some
\* string; a pattern without `*` matches only the command equal to it.
CommandMatchesIsWildcard ==
    returned # None =>
        Unwrap(returned) =
            (\E k \in 1..Len(Unwrap(arg).patterns) :
                WildcardMatch(Trim(Unwrap(arg).patterns[k]), Trim(Unwrap(arg).command)))

(***************************************************************************)
(* The gateway: a handler that fails.                                      *)
(***************************************************************************)
\* C27: when the engine allows a request and the handler then fails, the
\* response is the internal error (allowed = false, no result, the error
\* of the handler), and every audit record of the request carries the
\* engine's Allowed decision with its matched rule and no approver.
HandlerFailureAuditedAsAllowed ==
    \A id \in Requests :
        (EngineDecision(id).decision = "Allowed" /\ hist[id].handler = Some(FALSE)) =>
            /\ \A j \in ResponsesTo(id) :
                  /\ \E r \in HandlerResults :
                        ~r.ok /\ emitted[j].response = InternalError(id, r.value)
                  /\ emitted[j].response.allowed = FALSE
                  /\ emitted[j].response.result = None
            /\ \A i \in RecordsOf(id) :
                  /\ audit[i].decision = EngineDecision(id)
                  /\ audit[i].decision.decision = "Allowed"
                  /\ audit[i].policy_rule = EngineDecision(id).matched_rule
                  /\ audit[i].approved_by = None

\* An allowed request whose handler failed has been audited and answered.
HandlerFailureAuditedAsAllowedWitness ==
    \E id \in Requests :
        /\ EngineDecision(id).decision = "Allowed"
        /\ EngineDecision(id).matched_rule # None
        /\ hist[id].handler = Some(FALSE)
        /\ RecordsOf(id) # {}
        /\ ResponsesTo(id) # {}

(***************************************************************************)
(* audit/logger.rs examined alone: the tasks of the gateway calling        *)
(* AuditLogger::log through the mutex of the session.  The file is a       *)
(* sequence of chunks, one for each write that reached it: writeln! on an  *)
(* unbuffered File writes the serialised entry and then the line feed.     *)
(***************************************************************************)
\* The tasks that log concurrently, and the log calls each of them makes.
NumLogTasks == 2

MaxLogCalls == 2

LogTasks == 1..NumLogTasks

\* What a write of the serialised entry leaves in the file: all of it, or
\* on an error a part of it or nothing.
JsonWrites == {"written", "partial", "failed"}

\* The entry a task logs in its next call.
NextEntry(t) == <<t, logger.calls[t] + 1>>

LoggerInit ==
    /\ EngineIdle
    /\ NoGateway
    /\ fs = <<>>
    /\ arg = <<>>
    /\ returned = <<>>
    /\ hook = <<>>
    /\ logger = [file |-> <<>>, entry_count |-> 0, holder |-> None,
                 pc |-> [t \in LogTasks |-> "idle"],
                 calls |-> [t \in LogTasks |-> 0],
                 succeeded |-> {}, before |-> <<>>]

LoggerUnchanged ==
    /\ UNCHANGED <<engine, fs, arg, returned, hook>>
    /\ UNCHANGED engineVars
    /\ UNCHANGED gatewayVars

\* process_request: logger.lock().await
LockLogger(t) ==
    /\ logger.pc[t] = "idle"
    /\ logger.calls[t] < MaxLogCalls
    /\ logger.holder = None
    /\ logger' = [logger EXCEPT !.holder = Some(t), !.pc[t] = "json",
                                !.before = logger.file]
    /\ LoggerUnchanged

\* AuditLogger::log: the write of the serialised entry by writeln!.
WriteJson(t, outcome) ==
    /\ logger.pc[t] = "json"
    /\ logger' = [logger EXCEPT
           !.file = CASE outcome = "written" ->
                           Append(@, [entry |-> NextEntry(t), kind |-> "json"])
                      [] outcome = "partial" ->
                           Append(@, [entry |-> NextEntry(t), kind |-> "part"])
                      [] OTHER -> @,
           !.pc[t] = IF outcome = "written" THEN "newline" ELSE "failed",
           !.before = logger.file]
    /\ LoggerUnchanged

\* AuditLogger::log: the write of the line feed by writeln!.
WriteNewline(t, ok) ==
    /\ logger.pc[t] = "newline"
    /\ logger' = [logger EXCEPT
           !.file = IF ok THEN Append(@, [entry |-> NextEntry(t), kind |-> "newline"])
                    ELSE @,
           !.pc[t] = IF ok THEN "count" ELSE "failed",
           !.before = logger.file]
    /\ LoggerUnchanged

\* AuditLogger::log: flush, which does nothing on a File, the count of the
\* entry and Ok(()).
CountEntry(t) ==
    /\ logger.pc[t] = "count"
    /\ logger' = [logger EXCEPT !.entry_count = @ + 1,
                                !.succeeded = @ \cup {NextEntry(t)},
                                !.pc[t] = "returned",
                                !.before = logger.file]
    /\ LoggerUnchanged

\* process_request: the result of log is traced when it is an error, and
\* the guard of the mutex is dropped.
ReleaseLogger(t) ==
    /\ logger.pc[t] \in {"returned", "failed"}
    /\ logger' = [logger EXCEPT !.holder = None, !.pc[t] = "idle",
                                !.calls[t] = @ + 1,
                                !.before = logger.file]
    /\ LoggerUnchanged

LoggerNext ==
    \/ \E t \in LogTasks : LockLogger(t)
    \/ \E t \in LogTasks, outcome \in JsonWrites : WriteJson(t, outcome)
    \/ \E t \in LogTasks, ok \in BOOLEAN : WriteNewline(t, ok)
    \/ \E t \in LogTasks : CountEntry(t)
    \/ \E t \in LogTasks : ReleaseLogger(t)

LoggerSpec == LoggerInit /\ [][LoggerNext]_vars

\* The file is a sequence of lines, each the whole serialised entry of one
\* call followed by its line feed.
WholeRecords(file) ==
    /\ Len(file) % 2 = 0
    /\ \A k \in 1..Len(file) :
          IF k % 2 = 1
          THEN file[k].kind = "json"
          ELSE file[k].kind = "newline" /\ file[k].entry = file[k - 1].entry

\* The lines appended to the file.
LinesAppended(file) == Cardinality({k \in 1..Len(file) : file[k].kind = "newline"})

\* C28: whenever no log call is in progress the audit file consists of
\* whole records, one complete JSON line for each log call that returned
\* Ok and never a mix of two records, entry_count is the number of lines
\* appended, and no step changes or removes what the file already held.
AuditFileWholeRecords ==
    logger # <<>> =>
        /\ logger.before = SubSeq(logger.file, 1, Len(logger.before))
        /\ logger.holder = None =>
              /\ WholeRecords(logger.file)
              /\ \A e \in logger.succeeded :
                    Cardinality({k \in 1..Len(logger.file) :
                        logger.file[k] = [entry |-> e, kind |-> "json"]}) = 1
              /\ \A k \in 1..Len(logger.file) : logger.file[k].entry \in logger.succeeded
              /\ logger.entry_count = LinesAppended(logger.file)

(***************************************************************************)
(* gateway/server.rs examined alone on RunCmd requests: the command the    *)
(* engine is given and the command execute_action runs.                    *)
(***************************************************************************)
\* execute_action, arm RunCmd: the command handed to execute_command.
ExecutedCommand(request) == UnwrapOr(request.payload, request.target)

ShellCommands == { <<"r", " ", "x">>, <<"l", "s">>, <<"s", "h">> }

\* RunCmd requests, with the command as payload and without a payload.
ShellRequests ==
    { [request_id |-> RequestId(1, 1), action |-> "run_cmd", target |-> t,
       payload |-> p] :
          t \in ShellCommands, p \in {None} \cup {Some(c) : c \in ShellCommands} }

ShellRules ==
    { Deny("run_cmd", [NoConditions EXCEPT !.if_matches = <<CmdGlobRm>>], None),
      Allow("run_cmd", [NoConditions EXCEPT !.if_matches = << <<"l", "s">> >>]),
      RequireApproval("run_cmd", [NoConditions EXCEPT !.if_matches = << <<"s", "*">> >>],
                      None),
      Allow("run_cmd", NoConditions) }

ShellPolicies ==
    {[law |-> Law, rules |-> rs] : rs \in UNION {[1..n -> ShellRules] : n \in 1..MaxRules}}

ShellInit ==
    /\ CallAlone
    /\ arg \in {Some([policy |-> p, request |-> r]) :
                   p \in ShellPolicies, r \in ShellRequests}
    /\ returned = None

\* process_request on a RunCmd request whose handler succeeds: the context
\* and the decision (server.rs:177-202), and execute_action when the request
\* is allowed, or held for approval and approved (server.rs:204-264).
ProcessRunCmd(approved) ==
    /\ returned = None
    /\ LET request == Unwrap(arg).request
           d == Evaluate(NewEngine(Unwrap(arg).policy), request.action,
                         BuildContext(request))
           runs == \/ d.decision = "Allowed"
                   \/ d.decision = "RequiresApproval" /\ approved
       IN returned' = Some([decision |-> d,
                            command |-> IF runs THEN Some(ExecutedCommand(request))
                                        ELSE None])
    /\ CallUnchanged

ShellNext == \E approved \in BOOLEAN : ProcessRunCmd(approved)

ShellSpec == ShellInit /\ [][ShellNext]_vars

\* C29: the command handed to the shell handler for a RunCmd request is the
\* command of the context the engine evaluated the request with, also for a
\* request without payload.
RunsOnlyMatchedCommand ==
    (returned # None /\ Unwrap(returned).command # None) =>
        BuildContext(Unwrap(arg).request).command = Unwrap(returned).command

(***************************************************************************)
(* The hook and the gateway on the same network URL: the context each of   *)
(* them builds and the decision of the engine for it.                      *)
(***************************************************************************)
SchemeHttps == <<"h", "t", "t", "p", "s", ":", "/", "/">>

SchemeHttp == <<"h", "t", "t", "p", ":", "/", "/">>

NetworkUrls ==
    { SchemeHttps \o <<"g", ".", "c", "/", "x">>,
      SchemeHttps \o <<"g", ".", "c", ":", "8", "0", "/", "x">>,
      SchemeHttps \o <<"a", ".", "g", ".", "c">>,
      SchemeHttps \o <<"e", ".", "c", "/", "x">>,
      SchemeHttps \o <<"e", ".", "c", "/", "?", "u", "=">> \o SchemeHttp \o <<"g", ".", "c">>,
      SchemeHttp \o <<"g", ".", "c">>,
      <<"f", "t", "p", ":", "/", "/", "g", ".", "c", "/", "x">>,
      <<"g", ".", "c", "/", "x">> }

NetworkRules ==
    { Deny("network", [NoConditions EXCEPT !.unless_domain = <<DomainGit>>], None),
      RequireApproval("network", [NoConditions EXCEPT !.unless_domain = <<DomainGit>>],
                      None),
      Allow("network", [NoConditions EXCEPT !.unless_domain = << <<"e", ".", "c">> >>]),
      Deny("network", NoConditions, None),
      Allow("network", NoConditions) }

NetworkPolicies ==
    {[law |-> Law, rules |-> rs] : rs \in UNION {[1..n -> NetworkRules] : n \in 1..MaxRules}}

\* The tool call the hook is given for the URL.
HookNetworkInput(url) ==
    [session_id |-> None, tool_name |-> "WebFetch", tool_input |-> [url |-> url]]

\* The request the gateway is given for the URL: the URL is the target, and
\* the payload when the request has one.
GatewayNetworkRequest(url, with_payload) ==
    [request_id |-> RequestId(1, 1), action |-> "network", target |-> url,
     payload |-> IF with_payload THEN Some(url) ELSE None]

NetworkInit ==
    /\ CallAlone
    /\ arg \in {Some([policy |-> p, url |-> u, with_payload |-> w]) :
                   p \in NetworkPolicies, u \in NetworkUrls, w \in BOOLEAN}
    /\ returned = [hook |-> None, gateway |-> None]

\* hook main: the query map_tool_to_actions builds for the URL and the
\* decision of the engine for it.
HookEvaluatesUrl ==
    /\ returned.hook = None
    /\ LET q == Unwrap(MapToolToActions(HookNetworkInput(Unwrap(arg).url)))[1]
       IN returned' = [returned EXCEPT !.hook =
              Some([domain |-> q.context.domain,
                    decision |-> Evaluate(NewEngine(Unwrap(arg).policy),
                                          q.action, q.context)])]
    /\ CallUnchanged

\* process_request: the context built for the request and the decision of
\* the engine for it.
GatewayEvaluatesUrl ==
    /\ returned.gateway = None
    /\ LET request == GatewayNetworkRequest(Unwrap(arg).url, Unwrap(arg).with_payload)
           ctx == BuildContext(request)
       IN returned' = [returned EXCEPT !.gateway =
              Some([domain |-> ctx.domain,
                    decision |-> Evaluate(NewEngine(Unwrap(arg).policy),
                                          request.action, ctx)])]
    /\ CallUnchanged

NetworkNext == HookEvaluatesUrl \/ GatewayEvaluatesUrl

NetworkSpec == NetworkInit /\ [][NetworkNext]_vars

\* C30: for the same URL and the same policy the hook and the gateway
\* derive the same domain and the engine gives both the same decision.
HookAndGatewayAgreeOnUrl ==
    (/\ DOMAIN returned = {"hook", "gateway"}
     /\ returned.hook # None
     /\ returned.gateway # None) =>
        /\ Unwrap(returned.hook).domain = Unwrap(returned.gateway).domain
        /\ Unwrap(returned.hook).decision.decision =
              Unwrap(returned.gateway).decision.decision

=============================================================================
